---- MODULE Spec2Model ----
(***************************************************************************)
(* Model of the Fallout 1 binary format engine of tools/fallout_data:      *)
(* the LZSS decoder (lzss.py), the DAT archive reader (dat.py), the map     *)
(* deserializer (map.py) and the script container and disassembler         *)
(* (script.py).                                                            *)
(* Bytes are integers 0..255, byte strings are sequences of bytes, and a   *)
(* file position is a 0-based offset as in Python.                         *)
(***************************************************************************)
EXTENDS Integers, Sequences, FiniteSets, TLC

VARIABLES
    file,        \* bytes of the archive file behind DATArchive._file
    fpos,        \* read position of DATArchive._file
    opened,      \* "closed" before DATArchive.open, "open" after it returned
    entries,     \* DATArchive._entries: index key -> DATEntry
    ring,        \* LZSSDecoder.ring_buffer (its bytes other than spaces)
    ring_index,  \* LZSSDecoder.ring_index
    rd,          \* per caller: position inside read_file / exists / get_entry
    lz,          \* a direct call of LZSSDecoder.decode: its arguments and result
    mp,          \* a call of MapParser.parse: its arguments, locals and result
    sc           \* a Script under construction or iteration, and its caller

vars == <<file, fpos, opened, entries, ring, ring_index, rd, lz, mp, sc>>

\* no call of MapParser.parse and no Script in this run
NoMap == [pc |-> "none"]
NoScript == [pc |-> "none"]

(***************************************************************************)
(* Bounds of the model.                                                    *)
(***************************************************************************)
\* longest byte string handed to LZSSDecoder.decode directly
MaxDataLen == 4
\* longest payload of a raw, fully compressed or unknown entry
MaxPayloadLen == 3
\* largest unpacked_size an entry declares
MaxUnpacked == 3
\* most chunks in the payload of a chunked entry
MaxChunks == 3
\* most flag groups in an LZSS stream that is cut into chunks
MaxGroups == 2

(***************************************************************************)
(* Program constants.                                                      *)
(***************************************************************************)
RING_BUFFER_SIZE == 4096
RING_BUFFER_FILL == 4078
\* ord(' '), the byte reset() fills the ring buffer with
SPACE == 32

\* bytes the inputs are drawn from: flag bytes with both kinds of bits,
\* offset/length bytes that reach the initial cursor 4078 = 0xFEE, a letter
ByteAlphabet == {0, 1, 65, 238, 240, 255}

Min(a, b) == IF a < b THEN a ELSE b

\* data[pos] for a 0-based pos
At(data, pos) == data[pos + 1]

\* data[a:b] for 0 <= a, Python slice semantics (clamped to the length)
Slice(data, a, b) ==
    LET hi == Min(b, Len(data))
    IN  IF a >= hi THEN << >> ELSE SubSeq(data, a + 1, hi)

\* flags & (1 << bit) is non-zero
BitSet(flags, bit) == (flags \div (2 ^ bit)) % 2 = 1

(***************************************************************************)
(* lzss.py                                                                 *)
(***************************************************************************)
\* The ring buffer, a bytearray of RING_BUFFER_SIZE bytes, is held as the map
\* from the offsets whose byte is not SPACE to that byte: every bytearray has
\* exactly one such map.
\* self.ring_buffer[i]
RingByte(r, i) == IF i \in DOMAIN r THEN r[i] ELSE SPACE

\* the bytearray a map stands for
RingArray(r) == [i \in 0 .. RING_BUFFER_SIZE - 1 |-> RingByte(r, i)]

\* self.ring_buffer[i] = byte
RingStore(r, i, byte) ==
    IF byte = SPACE THEN [j \in DOMAIN r \ {i} |-> r[j]]
    ELSE [j \in DOMAIN r \cup {i} |-> IF j = i THEN byte ELSE r[j]]

\* LZSSDecoder.reset: bytearray(b' ' * RING_BUFFER_SIZE)
ResetRing == << >>

\* a plausible slip: the cursor is moved on without wrapping at the end of
\* the ring buffer
PutByteNoWrap(st, byte) ==
    [st EXCEPT !.ring = RingStore(@, st.idx, byte),
               !.idx = st.idx + 1,
               !.out = Append(@, byte)]


\* result.append(byte); self.ring_buffer[self.ring_index] = byte;
\* self.ring_index = (self.ring_index + 1) & 0xFFF
PutByte(st, byte) ==
    [st EXCEPT !.ring = RingStore(@, st.idx, byte),
               !.idx = (st.idx + 1) % 4096,
               !.out = Append(@, byte)]

\* a plausible slip: the whole run is read from the ring before any of it is
\* written back (a bulk copy)
RECURSIVE CopyRefBulk(_, _, _, _)
CopyRefBulk(st, offset, length, i) ==
    IF i >= length THEN st
    ELSE LET run == [k \in 0 .. length - 1 |-> RingByte(st.ring, (offset + k) % 4096)]
             RECURSIVE Put(_, _)
             Put(s, k) == IF k >= length THEN s ELSE Put(PutByte(s, run[k]), k + 1)
         IN  Put(st, 0)

\* the copy loop of a dictionary reference, for i in range(length)
RECURSIVE CopyRef(_, _, _, _)
CopyRef(st, offset, length, i) ==
    IF i >= length THEN st
    ELSE LET dict_index == (offset + i) % 4096
             byte == RingByte(st.ring, dict_index)
         IN  CopyRef(PutByte(st, byte), offset, length, i + 1)

\* offset = low | ((high & 0xF0) << 4)
RefOffset(low, high) == low + (high \div 16) * 256

\* length = (high & 0x0F) + 3
RefLength(high) == (high % 16) + 3

\* a plausible slip: decode copies a reference although one byte of the
\* budget is left
RECURSIVE DecodeBitsWholeToken(_, _, _, _)
DecodeBitsWholeToken(data, st, flags, bit) ==
    IF bit >= 8 THEN st
    ELSE IF st.rem <= 0 \/ st.pos >= Len(data) THEN st
    ELSE IF BitSet(flags, bit)
    THEN DecodeBitsWholeToken(data,
             [PutByte(st, At(data, st.pos)) EXCEPT !.pos = @ + 1, !.rem = @ - 1],
             flags, bit + 1)
    ELSE IF st.pos + 1 >= Len(data) THEN st
    ELSE LET low == At(data, st.pos)
             high == At(data, st.pos + 1)
             s2 == [st EXCEPT !.pos = @ + 2, !.rem = @ - 2]
         IN  DecodeBitsWholeToken(data,
                 CopyRef(s2, RefOffset(low, high), RefLength(high), 0), flags, bit + 1)


\* LZSSDecoder.decode: the loop over the 8 bits of one flag byte.
\* st = [ring, idx, out, pos, rem] with rem = bytes_remaining
RECURSIVE DecodeBits(_, _, _, _)
DecodeBits(data, st, flags, bit) ==
    IF bit >= 8 THEN st
    ELSE IF st.rem <= 0 \/ st.pos >= Len(data) THEN st
    ELSE IF BitSet(flags, bit)
    THEN DecodeBits(data,
                    [PutByte(st, At(data, st.pos)) EXCEPT !.pos = @ + 1, !.rem = @ - 1],
                    flags, bit + 1)
    ELSE IF st.rem < 2 \/ st.pos + 1 >= Len(data) THEN st
    ELSE LET low == At(data, st.pos)
             high == At(data, st.pos + 1)
             s2 == [st EXCEPT !.pos = @ + 2, !.rem = @ - 2]
         IN  DecodeBits(data, CopyRef(s2, RefOffset(low, high), RefLength(high), 0),
                        flags, bit + 1)

\* LZSSDecoder.decode: the loop over flag bytes
RECURSIVE DecodeLoop(_, _)
DecodeLoop(data, st) ==
    IF st.rem > 0 /\ st.pos < Len(data)
    THEN LET flags == At(data, st.pos)
             s1 == [st EXCEPT !.pos = @ + 1, !.rem = @ - 1]
         IN  DecodeLoop(data, DecodeBits(data, s1, flags, 0))
    ELSE st

\* LZSSDecoder.decode(data, compressed_length): reset, then decode
Decode(data, compressed_length) ==
    DecodeLoop(data, [ring |-> ResetRing, idx |-> RING_BUFFER_FILL, out |-> << >>,
                      pos |-> 0, rem |-> compressed_length])

\* a plausible slip: a decode goes on from the state the decoder is in
ResetSkipped(decoder) == decoder

\* LZSSDecoder.reset on a decoder in the state decoder = [ring, idx]
Reset(decoder) == [ring |-> ResetRing, idx |-> RING_BUFFER_FILL]

\* LZSSDecoder.decode(data, compressed_length) on a decoder that has been used
DecodeOn(decoder, data, compressed_length) ==
    LET d == Reset(decoder)
    IN  DecodeLoop(data, [ring |-> d.ring, idx |-> d.idx, out |-> << >>,
                          pos |-> 0, rem |-> compressed_length])

\* a plausible slip: the raw bytes are stored at the cursor but the cursor is
\* not moved on
RECURSIVE UpdateRingBufferInPlace(_, _, _)
UpdateRingBufferInPlace(st, data, i) ==
    IF i >= Len(data) THEN st
    ELSE UpdateRingBufferInPlace([st EXCEPT !.ring = RingStore(@, st.idx, At(data, i))],
                                 data, i + 1)


\* a plausible slip: raw bytes are not stored in the ring buffer
UpdateRingBufferSkipped(st, data, i) == st

\* the ring buffer and cursor after update_ring_buffer(data[i:])
RECURSIVE UpdateRingBuffer(_, _, _)
UpdateRingBuffer(st, data, i) ==
    IF i >= Len(data) THEN st
    ELSE UpdateRingBuffer([st EXCEPT !.ring = RingStore(@, st.idx, At(data, i)),
                                     !.idx = (st.idx + 1) % 4096],
                          data, i + 1)

\* a plausible slip: a reference is read whole although one byte of the
\* budget is left
RECURSIVE StreamBitsWholeToken(_, _, _, _)
StreamBitsWholeToken(f, st, flags, bit) ==
    IF bit >= 8 THEN st
    ELSE IF st.rem <= 0 THEN st
    ELSE IF BitSet(flags, bit)
    THEN IF st.pos >= Len(f) THEN st
         ELSE StreamBitsWholeToken(f,
                  [PutByte(st, At(f, st.pos)) EXCEPT !.pos = @ + 1, !.rem = @ - 1],
                  flags, bit + 1)
    ELSE IF st.pos + 2 > Len(f) THEN [st EXCEPT !.pos = Len(f)]
    ELSE LET low == At(f, st.pos)
             high == At(f, st.pos + 1)
             s2 == [st EXCEPT !.pos = @ + 2, !.rem = @ - 2]
         IN  StreamBitsWholeToken(f, CopyRef(s2, RefOffset(low, high), RefLength(high), 0),
                                  flags, bit + 1)


\* LZSSDecoder.decode_stream: the loop over the 8 bits of one flag byte.
\* st = [ring, idx, out, pos, rem]: pos is the stream's position in f, a
\* stream.read(n) returns what is left when fewer than n bytes remain
RECURSIVE StreamBits(_, _, _, _)
StreamBits(f, st, flags, bit) ==
    IF bit >= 8 THEN st
    ELSE IF st.rem <= 0 THEN st
    ELSE IF BitSet(flags, bit)
    THEN IF st.pos >= Len(f) THEN st
         ELSE StreamBits(f,
                         [PutByte(st, At(f, st.pos)) EXCEPT !.pos = @ + 1, !.rem = @ - 1],
                         flags, bit + 1)
    ELSE IF st.rem < 2 THEN st
    ELSE IF st.pos + 2 > Len(f) THEN [st EXCEPT !.pos = Len(f)]
    ELSE LET low == At(f, st.pos)
             high == At(f, st.pos + 1)
             s2 == [st EXCEPT !.pos = @ + 2, !.rem = @ - 2]
         IN  StreamBits(f, CopyRef(s2, RefOffset(low, high), RefLength(high), 0),
                        flags, bit + 1)

\* LZSSDecoder.decode_stream: the loop over flag bytes; no reset
RECURSIVE DecodeStream(_, _)
DecodeStream(f, st) ==
    IF st.rem > 0
    THEN IF st.pos >= Len(f) THEN st
         ELSE LET flags == At(f, st.pos)
                  s1 == [st EXCEPT !.pos = @ + 1, !.rem = @ - 1]
              IN  DecodeStream(f, StreamBits(f, s1, flags, 0))
    ELSE st

(***************************************************************************)
(* dat.py                                                                  *)
(***************************************************************************)
FLAG_LZSS == 16
FLAG_RAW == 32
FLAG_CHUNKED == 64

\* the character bytes.decode('ascii', errors='replace') gives for a byte
REPLACEMENT_CHAR == 65533
AsciiDecode(bytes) ==
    [i \in 1 .. Len(bytes) |-> IF bytes[i] < 128 THEN bytes[i] ELSE REPLACEMENT_CHAR]

\* str.upper() on the characters a path can hold
UpperChar(c) == IF c >= 97 /\ c <= 122 THEN c - 32 ELSE c
Upper(str) == [i \in 1 .. Len(str) |-> UpperChar(str[i])]

\* str.replace('/', '\\')
ReplaceSlash(str) == [i \in 1 .. Len(str) |-> IF str[i] = 47 THEN 92 ELSE str[i]]

\* path_key = path.upper().replace('/', '\\') of read_file, get_entry, exists
RequestKey(path) == ReplaceSlash(Upper(path))

\* self._entries[full_path.upper()] of _parse_index
IndexKey(full_path) == Upper(full_path)

\* _read_u32_be at position p: the value and the position after the read
ReadU32BE(f, p) ==
    IF p + 4 > Len(f) THEN [val |-> 0, pos |-> Len(f)]
    ELSE [val |-> At(f, p) * 16777216 + At(f, p + 1) * 65536
                  + At(f, p + 2) * 256 + At(f, p + 3),
          pos |-> p + 4]

\* _read_key at position p
ReadKey(f, p) ==
    IF p >= Len(f) THEN [val |-> << >>, pos |-> p]
    ELSE LET length == At(f, p)
         IN  [val |-> AsciiDecode(Slice(f, p + 1, p + 1 + length)),
              pos |-> Min(p + 1 + length, Len(f))]

\* self._file.read(n) for its effect on the position only
SkipRead(f, p, n) == Min(p + n, Len(f))

\* _parse_index: the loop reading the directory names
RECURSIVE ReadDirNames(_, _, _, _, _)
ReadDirNames(f, p, n, root_datasize, directories) ==
    IF n = 0 THEN [val |-> directories, pos |-> p]
    ELSE LET k == ReadKey(f, p)
             p2 == IF root_datasize > 0 THEN SkipRead(f, k.pos, root_datasize) ELSE k.pos
         IN  ReadDirNames(f, p2, n - 1, root_datasize, Append(directories, k.val))

\* full_path of _parse_index
FullPath(dir_name, filename) ==
    IF dir_name # << >> THEN dir_name \o <<92>> \o filename ELSE filename

\* _parse_index: the loop over the dir_count file entries of one directory;
\* idx is the index built so far
RECURSIVE ReadFileEntries(_, _, _, _, _, _)
ReadFileEntries(f, p, n, dir_name, dir_datasize, idx) ==
    IF n = 0 THEN [val |-> idx, pos |-> p]
    ELSE LET k == ReadKey(f, p)
         IN  IF dir_datasize = 16
             THEN LET flags == ReadU32BE(f, k.pos)
                      offset == ReadU32BE(f, flags.pos)
                      unpacked_size == ReadU32BE(f, offset.pos)
                      packed_size == ReadU32BE(f, unpacked_size.pos)
                      full_path == FullPath(dir_name, k.val)
                      entry == [path |-> full_path, flags |-> flags.val,
                                offset |-> offset.val, packed_size |-> packed_size.val,
                                unpacked_size |-> unpacked_size.val]
                  IN  ReadFileEntries(f, packed_size.pos, n - 1, dir_name, dir_datasize,
                                      (IndexKey(full_path) :> entry) @@ idx)
             ELSE IF dir_datasize > 0
             THEN ReadFileEntries(f, SkipRead(f, k.pos, dir_datasize), n - 1,
                                  dir_name, dir_datasize, idx)
             ELSE ReadFileEntries(f, k.pos, n - 1, dir_name, dir_datasize, idx)

\* _parse_index: the loop over the directories
RECURSIVE ReadDirectories(_, _, _, _, _)
ReadDirectories(f, p, directories, i, idx) ==
    IF i > Len(directories) THEN [val |-> idx, pos |-> p]
    ELSE LET dir_count == ReadU32BE(f, p)
             dir_max == ReadU32BE(f, dir_count.pos)
             dir_datasize == ReadU32BE(f, dir_max.pos)
             dir_unused == ReadU32BE(f, dir_datasize.pos)
             r == ReadFileEntries(f, dir_unused.pos, dir_count.val, directories[i],
                                  dir_datasize.val, idx)
         IN  ReadDirectories(f, r.pos, directories, i + 1, r.val)

\* _parse_index on a file just opened: the index and the position it ends at
ParseIndex(f) ==
    LET root_count == ReadU32BE(f, 0)
        root_max == ReadU32BE(f, root_count.pos)
        root_datasize == ReadU32BE(f, root_max.pos)
        root_unused == ReadU32BE(f, root_datasize.pos)
    IN  IF root_count.val = 0 THEN [val |-> << >>, pos |-> root_unused.pos]
        ELSE LET d == ReadDirNames(f, root_unused.pos, root_count.val,
                                   root_datasize.val, << >>)
             IN  ReadDirectories(f, d.pos, d.val, 1, << >>)

\* a plausible slip: the flags word is compared without masking its nibble
BranchUnmasked(flags) ==
    IF flags = FLAG_RAW THEN "raw"
    ELSE IF flags = FLAG_LZSS THEN "lzss"
    ELSE IF flags = FLAG_CHUNKED THEN "chunked"
    ELSE "unknown"

\* the branch read_file takes on flag = entry.flags & 0xF0
Branch(flags) ==
    LET flag == ((flags \div 16) % 16) * 16
    IN  IF flag = FLAG_RAW THEN "raw"
        ELSE IF flag = FLAG_LZSS THEN "lzss"
        ELSE IF flag = FLAG_CHUNKED THEN "chunked"
        ELSE "unknown"

\* a plausible slip: the loop also runs when the result is exactly full
ChunkLoopRunsWhenFull(acc, target_length) == Len(acc) <= target_length

\* the condition of the loop of _read_chunked: len(result) < target_length
ChunkLoopRuns(acc, target_length) == Len(acc) < target_length

\* one pass through the body of the loop of _read_chunked.
\* c = [ring, idx, pos, acc, brk]: the decoder, the file position, the result
\* so far, and whether the pass left the loop by break
ChunkPass(f, c) ==
    IF c.pos + 2 > Len(f) THEN [c EXCEPT !.pos = Len(f), !.brk = TRUE]
    ELSE LET chunk_header == At(f, c.pos) * 256 + At(f, c.pos + 1)
             p == c.pos + 2
         IN  IF chunk_header >= 32768
             THEN LET chunk_size == chunk_header % 32768
                      chunk_data == Slice(f, p, p + chunk_size)
                      st == UpdateRingBuffer([ring |-> c.ring, idx |-> c.idx],
                                             chunk_data, 0)
                  IN  [c EXCEPT !.pos = p + Len(chunk_data),
                                !.acc = @ \o chunk_data,
                                !.ring = st.ring, !.idx = st.idx]
             ELSE LET st == DecodeStream(f, [ring |-> c.ring, idx |-> c.idx,
                                             out |-> << >>, pos |-> p,
                                             rem |-> chunk_header])
                  IN  [c EXCEPT !.pos = st.pos, !.acc = @ \o st.out,
                                !.ring = st.ring, !.idx = st.idx]

ByteStrings(n) == UNION {[1 .. k -> ByteAlphabet] : k \in 0 .. n}

(***************************************************************************)
(* Archive files the model opens. An archive is laid out as _parse_index   *)
(* reads it: root header, directory keys, per directory a header and its   *)
(* file entries, then the payloads in entry order.                         *)
(***************************************************************************)
EncU32(n) ==
    <<(n \div 16777216) % 256, (n \div 65536) % 256, (n \div 256) % 256, n % 256>>

EncU16(n) == <<(n \div 256) % 256, n % 256>>

EncKey(name) == <<Len(name)>> \o name

RECURSIVE Flatten(_)
Flatten(ss) == IF ss = << >> THEN << >> ELSE Head(ss) \o Flatten(Tail(ss))

RECURSIVE SumSeq(_)
SumSeq(ns) == IF ns = << >> THEN 0 ELSE Head(ns) + SumSeq(Tail(ns))

MkFile(name, flags, payload, unpacked) ==
    [name |-> name, flags |-> flags, payload |-> payload, unpacked |-> unpacked]

MkDir(name, files) == [name |-> name, files |-> files]

\* the bytes of an archive holding the directories dirs
Image(dirs) ==
    LET n == Len(dirs)
        allFiles == Flatten([i \in 1 .. n |-> dirs[i].files])
        indexLen == 16 + SumSeq([i \in 1 .. n |-> 1 + Len(dirs[i].name)])
                       + SumSeq([i \in 1 .. n |-> 16])
                       + SumSeq([k \in 1 .. Len(allFiles) |-> 17 + Len(allFiles[k].name)])
        filesBefore(i) == SumSeq([j \in 1 .. i - 1 |-> Len(dirs[j].files)])
        offsetOf(k) == indexLen + SumSeq([m \in 1 .. k - 1 |-> Len(allFiles[m].payload)])
        entryBytes(i, j) ==
            LET fl == dirs[i].files[j]
            IN  EncKey(fl.name) \o EncU32(fl.flags) \o EncU32(offsetOf(filesBefore(i) + j))
                \o EncU32(fl.unpacked) \o EncU32(Len(fl.payload))
        dirBytes(i) ==
            LET c == Len(dirs[i].files)
            IN  EncU32(c) \o EncU32(c) \o EncU32(16) \o EncU32(0)
                \o Flatten([j \in 1 .. c |-> entryBytes(i, j)])
    IN  EncU32(n) \o EncU32(n) \o EncU32(0) \o EncU32(0)
        \o Flatten([i \in 1 .. n |-> EncKey(dirs[i].name)])
        \o Flatten([i \in 1 .. n |-> dirBytes(i)])
        \o Flatten([k \in 1 .. Len(allFiles) |-> allFiles[k].payload])

\* one directory, one file
OneFile(dir_name, fl) == Image(<<MkDir(dir_name, <<fl>>)>>)

\* an archive with one entry of every kind: raw, fully compressed, unknown
\* flags, chunked (a raw chunk "AB", then an LZSS chunk copying it)
BaselineImage ==
    Image(<<MkDir(<<100>>,
                  <<MkFile(<<114>>, 32, <<65, 66, 67>>, 3),
                    MkFile(<<108>>, 16, <<1, 65, 238, 240>>, 4),
                    MkFile(<<117>>, 80, <<68>>, 1),
                    MkFile(<<107>>, 64, <<128, 2, 65, 66, 0, 3, 0, 238, 240>>, 5)>>)>>)

\* directory and file names: "", "a", "a\b", "A/b" and "c", "C"
DirNames == {<< >>, <<97>>, <<97, 92, 98>>, <<65, 47, 98>>}
FileNames == {<<99>>, <<67>>}

\* one directory of one or two raw files; the payload tells the files apart
PathImages ==
    {OneFile(d, MkFile(f, 32, <<1>>, 1)) : d \in DirNames, f \in FileNames}
    \cup {Image(<<MkDir(d, <<MkFile(f1, 32, <<1>>, 1), MkFile(f2, 33, <<2>>, 1)>>)>>) :
              d \in DirNames, f1 \in FileNames, f2 \in FileNames}

\* one file of every payload, followed by a second file: raw 0x20, 0x21 and
\* 0x120 and unknown 0x50 and 0x00 declaring the payload's length; fully
\* compressed 0x10 and 0x11 and chunked 0x41 declaring every unpacked_size
StoredFlags == {32, 33, 288, 80, 0}
PackedFlags == {16, 17, 65}
TwoFiles(fl, p, u) ==
    Image(<<MkDir(<< >>, <<MkFile(<<102>>, fl, p, u), MkFile(<<103>>, 32, <<71>>, 1)>>)>>)
ReadImages ==
    {TwoFiles(fl, p, Len(p)) : fl \in StoredFlags, p \in ByteStrings(MaxPayloadLen)}
    \cup {TwoFiles(fl, p, u) :
              fl \in PackedFlags, p \in ByteStrings(MaxPayloadLen), u \in 0 .. MaxUnpacked}

\* chunks a chunked payload is put together from: empty raw and LZSS chunks,
\* a raw chunk "AB", a raw chunk declaring 3 bytes and holding 1, an LZSS
\* chunk of a literal and a reference to offset 4078, and an LZSS chunk
\* declaring 9 bytes and holding 2
ChunkSet ==
    {<<128, 0>>, <<0, 0>>, <<128, 2, 65, 66>>, <<128, 3, 65>>,
     <<0, 4, 1, 69, 238, 240>>, <<0, 9, 255, 70>>}

ChunkSeqs(n) == UNION {[1 .. k -> ChunkSet] : k \in 0 .. n}

ChunkImages ==
    {OneFile(<< >>, MkFile(<<107>>, fl, Flatten(cs), u)) :
         fl \in {64}, cs \in ChunkSeqs(MaxChunks), u \in 0 .. MaxUnpacked}

\* an archive of one raw file "a\c", cut off after any number of bytes
SmallImage == OneFile(<<97>>, MkFile(<<99>>, 32, <<65, 66>>, 2))
TruncatedImages == {Slice(SmallImage, 0, n) : n \in 0 .. Len(SmallImage)}

\* flag groups an LZSS stream is put together from: 8 literals "ABCDEFGH";
\* 4 literals and 4 references to offsets 4078, 4079, 4078, 4080; a literal
\* and a reference to offset 4078; a reference to offset 4078 of length 4;
\* a reference of length 3 to offset 4085, which overlaps the cursor when 8
\* bytes have been decoded
GroupSet ==
    {<<255, 65, 66, 67, 68, 69, 70, 71, 72>>,
     <<15, 73, 74, 75, 76, 238, 240, 239, 240, 238, 241, 240, 240>>,
     <<1, 77, 238, 240>>,
     <<0, 238, 241>>,
     <<0, 245, 240>>}

\* the ends of the first 1..MaxGroups-1 groups of the streams above
RECURSIVE GroupEnds(_)
GroupEnds(gs) ==
    IF Len(gs) <= 1 THEN {}
    ELSE LET n == Len(Head(gs))
         IN  {n} \cup {n + e : e \in GroupEnds(Tail(gs))}

\* places a stream is cut at: nowhere, at any one byte offset, or at any
\* set of ends of the groups it was put together from
CutSets(gs) ==
    {{}} \cup {{c} : c \in 1 .. Len(Flatten(gs)) - 1} \cup SUBSET GroupEnds(gs)

\* the stream cut at cuts, as the list of its pieces
RECURSIVE Pieces(_, _, _)
Pieces(stream, from, cuts) ==
    IF cuts = {} THEN <<Slice(stream, from, Len(stream))>>
    ELSE LET c == CHOOSE x \in cuts : \A y \in cuts : x <= y
         IN  <<Slice(stream, from, c)>> \o Pieces(stream, c, cuts \ {c})

\* a piece as a chunk: an LZSS chunk, or with raw set and the piece being a
\* flag byte 0xFF and 8 literals, a raw chunk of the 8 literals
AsChunk(piece, raw) ==
    IF raw /\ Len(piece) = 9 /\ piece[1] = 255
    THEN EncU16(32768 + 8) \o Tail(piece)
    ELSE EncU16(Len(piece)) \o piece

CutPayload(stream, cuts, raw) ==
    LET ps == Pieces(stream, 0, cuts)
    IN  Flatten([i \in 1 .. Len(ps) |-> AsChunk(ps[i], raw)])

\* chunked entries holding a stream cut into chunks, declaring the length the
\* stream decodes to, or half of it
CutImages ==
    UNION {
      LET stream == Flatten(gs)
          full == Len(Decode(stream, Len(stream)).out)
      IN  {OneFile(<< >>, MkFile(<<107>>, 64, CutPayload(stream, cuts, raw), u)) :
               cuts \in CutSets(gs), raw \in BOOLEAN, u \in {full, full \div 2}}
      : gs \in UNION {[1 .. k -> GroupSet] : k \in 0 .. MaxGroups}}

(***************************************************************************)
(* The callers of an open archive.                                         *)
(***************************************************************************)
NoEntry == [path |-> << >>, flags |-> 0, offset |-> 0, packed_size |-> 0,
            unpacked_size |-> 0]

\* a caller outside any call. op/path: the call; found/data/entry: what it
\* returned (found = FALSE: None or False); branch: the branch read_file
\* took; acc: result of _read_chunked; hdrs: chunk headers it has read;
\* at_hdr: len(result) when it read the latest one
IdleReader ==
    [pc |-> "idle", op |-> "none", path |-> << >>, found |-> FALSE, data |-> << >>,
     entry |-> NoEntry, branch |-> "none", acc |-> << >>, hdrs |-> 0, at_hdr |-> 0]

NoReaders == [t \in {1, 2} |-> IdleReader]

\* the request paths tried on an archive: every stored path in every letter
\* case and with either separator, and a path that is not stored
CharVariants(c) ==
    {c, UpperChar(c)} \cup (IF c >= 65 /\ c <= 90 THEN {c + 32} ELSE {})
    \cup (IF c \in {47, 92} THEN {47, 92} ELSE {})

RECURSIVE Variants(_)
Variants(path) ==
    IF path = << >> THEN {<< >>}
    ELSE {<<c>> \o q : c \in CharVariants(Head(path)), q \in Variants(Tail(path))}

AbsentPath == <<122>>

StoredPaths == {entries[k].path : k \in DOMAIN entries}

RequestPaths == UNION {Variants(p) : p \in StoredPaths} \cup {AbsentPath}

\* an archive file not yet opened
Closed(images) ==
    /\ file \in images
    /\ fpos = 0
    /\ opened = "closed"
    /\ entries = << >>
    /\ ring = ResetRing
    /\ ring_index = RING_BUFFER_FILL
    /\ rd = NoReaders
    /\ lz = [pc |-> "none", data |-> << >>, out |-> << >>]
    /\ mp = NoMap
    /\ sc = NoScript

Init == Closed({BaselineImage} \cup PathImages \cup TruncatedImages)

\* an archive whose entries p (fully compressed) and b (chunked) store the
\* bytes P, Q in the ring buffer at 4078 and 4079, and whose entries q (fully
\* compressed) and c (chunked) copy 3 bytes from there without storing any
\* first; n is stored raw
UsedRingImage ==
    Image(<<MkDir(<<100>>,
                  <<MkFile(<<112>>, 16, <<255, 80, 81>>, 3),
                    MkFile(<<113>>, 16, <<0, 238, 240>>, 3),
                    MkFile(<<98>>, 64, <<128, 2, 80, 81>>, 2),
                    MkFile(<<99>>, 64, <<0, 3, 0, 238, 240>>, 3),
                    MkFile(<<110>>, 32, <<78>>, 1)>>)>>)

InitRead ==
    Closed({BaselineImage, UsedRingImage} \cup ReadImages \cup ChunkImages \cup CutImages)

\* DATArchive.open: open the file and parse the index
Open ==
    /\ opened = "closed"
    /\ LET r == ParseIndex(file)
       IN  /\ entries' = r.val
           /\ fpos' = r.pos
    /\ opened' = "open"
    /\ UNCHANGED <<file, ring, ring_index, rd, lz, mp, sc>>

CanCall(t) == opened = "open" /\ rd[t].pc \in {"idle", "done"}

Return(t, op, path, found, data, entry, branch) ==
    [rd[t] EXCEPT !.pc = "done", !.op = op, !.path = path, !.found = found,
                  !.data = data, !.entry = entry, !.branch = branch]

\* exists(path)
Exists(t) ==
    /\ CanCall(t)
    /\ \E path \in RequestPaths :
           LET path_key == RequestKey(path)
           IN  rd' = [rd EXCEPT ![t] = [Return(t, "exists", path, path_key \in DOMAIN entries,
                                               << >>, NoEntry, "none")
                                        EXCEPT !.acc = << >>, !.hdrs = 0, !.at_hdr = 0]]
    /\ UNCHANGED <<file, fpos, opened, entries, ring, ring_index, lz, mp, sc>>

\* get_entry(path)
GetEntry(t) ==
    /\ CanCall(t)
    /\ \E path \in RequestPaths :
           LET path_key == RequestKey(path)
               hit == path_key \in DOMAIN entries
           IN  rd' = [rd EXCEPT ![t] = [Return(t, "get_entry", path, hit, << >>,
                                               IF hit THEN entries[path_key] ELSE NoEntry,
                                               "none")
                                        EXCEPT !.acc = << >>, !.hdrs = 0, !.at_hdr = 0]]
    /\ UNCHANGED <<file, fpos, opened, entries, ring, ring_index, lz, mp, sc>>

\* a plausible slip: the seek comes before the test for a missing path, with
\* offset 0 for a path that is not in the index
ReadFileCallSeeksFirst(t, paths) ==
    /\ CanCall(t)
    /\ \E path \in paths :
           LET path_key == RequestKey(path)
           IN  IF path_key \notin DOMAIN entries
               THEN /\ rd' = [rd EXCEPT ![t] = [Return(t, "read_file", path, FALSE, << >>,
                                                       NoEntry, "none")
                                                EXCEPT !.acc = << >>, !.hdrs = 0,
                                                       !.at_hdr = 0]]
                    /\ fpos' = 0
               ELSE /\ rd' = [rd EXCEPT ![t] = [IdleReader EXCEPT
                                                    !.pc = "seeked", !.op = "read_file",
                                                    !.path = path,
                                                    !.entry = entries[path_key],
                                                    !.branch = Branch(entries[path_key].flags)]]
                    /\ fpos' = entries[path_key].offset
    /\ UNCHANGED <<file, opened, entries, ring, ring_index, lz, mp, sc>>

\* read_file(path) up to and including self._file.seek(entry.offset); a path
\* that is not in the index returns None before the seek
ReadFileCall(t, paths) ==
    /\ CanCall(t)
    /\ \E path \in paths :
           LET path_key == RequestKey(path)
           IN  IF path_key \notin DOMAIN entries
               THEN /\ rd' = [rd EXCEPT ![t] = [Return(t, "read_file", path, FALSE, << >>,
                                                       NoEntry, "none")
                                                EXCEPT !.acc = << >>, !.hdrs = 0,
                                                       !.at_hdr = 0]]
                    /\ fpos' = fpos
               ELSE /\ rd' = [rd EXCEPT ![t] = [IdleReader EXCEPT
                                                    !.pc = "seeked", !.op = "read_file",
                                                    !.path = path,
                                                    !.entry = entries[path_key],
                                                    !.branch = Branch(entries[path_key].flags)]]
                    /\ fpos' = entries[path_key].offset
    /\ UNCHANGED <<file, opened, entries, ring, ring_index, lz, mp, sc>>

\* flag == FLAG_RAW: return self._file.read(entry.packed_size)
ReadRaw(t) ==
    /\ rd[t].pc = "seeked"
    /\ rd[t].branch = "raw"
    /\ LET data == Slice(file, fpos, fpos + rd[t].entry.packed_size)
       IN  /\ rd' = [rd EXCEPT ![t] = [@ EXCEPT !.pc = "done", !.found = TRUE,
                                                !.data = data]]
           /\ fpos' = fpos + Len(data)
    /\ UNCHANGED <<file, opened, entries, ring, ring_index, lz, mp, sc>>

\* the else branch (unknown format, try raw)
ReadUnknown(t) ==
    /\ rd[t].pc = "seeked"
    /\ rd[t].branch = "unknown"
    /\ LET data == Slice(file, fpos, fpos + rd[t].entry.packed_size)
       IN  /\ rd' = [rd EXCEPT ![t] = [@ EXCEPT !.pc = "done", !.found = TRUE,
                                                !.data = data]]
           /\ fpos' = fpos + Len(data)
    /\ UNCHANGED <<file, opened, entries, ring, ring_index, lz, mp, sc>>

\* flag == FLAG_LZSS: data = self._file.read(entry.packed_size);
\* return self._decoder.decode(data, entry.unpacked_size)
ReadLZSS(t) ==
    /\ rd[t].pc = "seeked"
    /\ rd[t].branch = "lzss"
    /\ LET data == Slice(file, fpos, fpos + rd[t].entry.packed_size)
           st == DecodeOn([ring |-> ring, idx |-> ring_index], data,
                          rd[t].entry.unpacked_size)
       IN  /\ rd' = [rd EXCEPT ![t] = [@ EXCEPT !.pc = "done", !.found = TRUE,
                                                !.data = st.out]]
           /\ fpos' = fpos + Len(data)
           /\ ring' = st.ring
           /\ ring_index' = st.idx
    /\ UNCHANGED <<file, opened, entries, lz, mp, sc>>

\* flag == FLAG_CHUNKED: _read_chunked up to the loop (the decoder's reset)
ReadChunkedBegin(t) ==
    /\ rd[t].pc = "seeked"
    /\ rd[t].branch = "chunked"
    /\ rd' = [rd EXCEPT ![t] = [@ EXCEPT !.pc = "chunks", !.acc = << >>]]
    /\ LET d == Reset([ring |-> ring, idx |-> ring_index])
       IN  /\ ring' = d.ring
           /\ ring_index' = d.idx
    /\ UNCHANGED <<file, fpos, opened, entries, lz, mp, sc>>

\* _read_chunked: one pass through the loop; a short header leaves the loop
\* and returns result[:target_length]
ChunkStep(t) ==
    /\ rd[t].pc = "chunks"
    /\ ChunkLoopRuns(rd[t].acc, rd[t].entry.unpacked_size)
    /\ LET c == ChunkPass(file, [ring |-> ring, idx |-> ring_index, pos |-> fpos,
                                 acc |-> rd[t].acc, brk |-> FALSE])
       IN  /\ fpos' = c.pos
           /\ ring' = c.ring
           /\ ring_index' = c.idx
           /\ rd' = [rd EXCEPT ![t] =
                  IF c.brk
                  THEN [@ EXCEPT !.pc = "done", !.found = TRUE,
                                 !.data = Slice(c.acc, 0, rd[t].entry.unpacked_size)]
                  ELSE [@ EXCEPT !.acc = c.acc, !.hdrs = @ + 1,
                                 !.at_hdr = Len(rd[t].acc)]]
    /\ UNCHANGED <<file, opened, entries, lz, mp, sc>>

\* _read_chunked: the loop condition fails; return result[:target_length]
ChunkReturn(t) ==
    /\ rd[t].pc = "chunks"
    /\ ~ChunkLoopRuns(rd[t].acc, rd[t].entry.unpacked_size)
    /\ rd' = [rd EXCEPT ![t] = [@ EXCEPT !.pc = "done", !.found = TRUE,
                                         !.data = Slice(rd[t].acc, 0,
                                                        rd[t].entry.unpacked_size)]]
    /\ UNCHANGED <<file, fpos, opened, entries, ring, ring_index, lz, mp, sc>>

\* read_file after the seek
ReadBody(t) ==
    \/ ReadRaw(t)
    \/ ReadUnknown(t)
    \/ ReadLZSS(t)
    \/ ReadChunkedBegin(t)
    \/ ChunkStep(t)
    \/ ChunkReturn(t)

\* one caller, any request path
Next ==
    \/ Open
    \/ Exists(1)
    \/ GetEntry(1)
    \/ ReadFileCall(1, RequestPaths)
    \/ ReadBody(1)

Spec == Init /\ [][Next]_vars

\* one caller reading the stored paths and a path that is not stored
NextRead ==
    \/ Open
    \/ ReadFileCall(1, StoredPaths \cup {AbsentPath})
    \/ ReadBody(1)

SpecRead == InitRead /\ [][NextRead]_vars

(***************************************************************************)
(* Two callers of one open archive: read_file calls interleave between the *)
(* seek, the reads and the passes of the chunk loop.                       *)
(***************************************************************************)
InitConc == Closed({BaselineImage})

NextConc ==
    \/ Open
    \/ \E t \in {1, 2} : ReadFileCall(t, StoredPaths) \/ ReadBody(t)

SpecConc == InitConc /\ [][NextConc]_vars

(***************************************************************************)
(* What a read of an entry returns when nothing else uses the archive,     *)
(* told from the high nibble of the flags word.                            *)
(***************************************************************************)
RECURSIVE AloneChunks(_, _)
AloneChunks(c, target) ==
    IF Len(c.acc) < target
    THEN LET c2 == ChunkPass(file, c)
         IN  IF c2.brk THEN c2.acc ELSE AloneChunks(c2, target)
    ELSE c.acc

AloneRead(e) ==
    LET nibble == (e.flags \div 16) % 16
        stored == Slice(file, e.offset, e.offset + e.packed_size)
    IN  IF nibble = 1 THEN Decode(stored, e.unpacked_size).out
        ELSE IF nibble = 4
        THEN Slice(AloneChunks([ring |-> ResetRing, idx |-> 4078, pos |-> e.offset,
                                acc |-> << >>, brk |-> FALSE], e.unpacked_size),
                   0, e.unpacked_size)
        ELSE stored

\* caller t has returned from a read_file that found its entry
ReadDone(t) == rd[t].pc = "done" /\ rd[t].op = "read_file" /\ rd[t].found

(***************************************************************************)
(* C2: a chunked payload as the chunking of one LZSS token stream.         *)
(***************************************************************************)
\* 8 literals per flag byte 0xFF: the tokens that encode the bytes of a raw
\* chunk
RECURSIVE C2_Literals(_)
C2_Literals(bytes) ==
    IF bytes = << >> THEN << >>
    ELSE <<255>> \o Slice(bytes, 0, 8) \o C2_Literals(Slice(bytes, 8, Len(bytes)))

\* the stream a payload is a chunking of, and the stream offsets its chunks
\* end at; ok is FALSE when the payload is not a list of complete chunks
\* (raw chunks: whole groups of 8 literals)
RECURSIVE C2_Unchunk(_, _, _, _)
C2_Unchunk(p, pos, stream, cuts) ==
    IF pos = Len(p) THEN [ok |-> TRUE, stream |-> stream, cuts |-> cuts]
    ELSE IF pos + 2 > Len(p) THEN [ok |-> FALSE, stream |-> stream, cuts |-> cuts]
    ELSE LET h == At(p, pos) * 256 + At(p, pos + 1)
             n == h % 32768
             body == Slice(p, pos + 2, pos + 2 + n)
             toks == IF h >= 32768 THEN C2_Literals(body) ELSE body
         IN  IF Len(body) < n \/ (h >= 32768 /\ n % 8 # 0)
             THEN [ok |-> FALSE, stream |-> stream, cuts |-> cuts]
             ELSE C2_Unchunk(p, pos + 2 + n, stream \o toks,
                             cuts \cup {Len(stream \o toks)})

\* the offsets at which a decode of the whole stream reads a flag byte
RECURSIVE C2_FlagOffsets(_, _, _, _)
C2_FlagOffsets(data, pos, flags, bit) ==
    IF pos >= Len(data) THEN {}
    ELSE IF bit = 8 THEN {pos} \cup C2_FlagOffsets(data, pos + 1, At(data, pos), 0)
    ELSE IF (flags \div (2 ^ bit)) % 2 = 1 THEN C2_FlagOffsets(data, pos + 1, flags, bit + 1)
    ELSE IF pos + 1 >= Len(data) THEN {pos}
    ELSE C2_FlagOffsets(data, pos + 2, flags, bit + 1)

C2_Payload(e) == Slice(file, e.offset, Len(file))

C2_SameAsMonolithic(t) ==
    LET u == C2_Unchunk(C2_Payload(rd[t].entry), 0, << >>, {})
    IN  rd[t].data = Slice(Decode(u.stream, Len(u.stream)).out, 0,
                           rd[t].entry.unpacked_size)

C2_CutAtFlagBytes(e) ==
    LET u == C2_Unchunk(C2_Payload(e), 0, << >>, {})
    IN  u.cuts \subseteq C2_FlagOffsets(u.stream, 0, 0, 8) \cup {Len(u.stream)}

C2_IsChunking(t) ==
    /\ ReadDone(t)
    /\ (rd[t].entry.flags \div 16) % 16 = 4
    /\ C2_Unchunk(C2_Payload(rd[t].entry), 0, << >>, {}).ok

\* C2 as stated: a chunked read of an LZSS token stream cut at arbitrary
\* offsets into LZSS chunks (groups of 8 literals possibly stored as raw
\* chunks) returns what decoding the stream as one block returns.
C2_ChunkedEqualsMonolithic ==
    C2_IsChunking(1) => C2_SameAsMonolithic(1)

\* C2 amended: the same, for a stream cut only where the decoder of the whole
\* stream reads a flag byte (every chunk starts with a flag byte and every
\* chunk but the last ends after the 8th token of a flag group); the output is
\* that of the one-block decode, cut to unpacked_size.
C2_ChunkedEqualsMonolithicAtFlagBytes ==
    (C2_IsChunking(1) /\ C2_CutAtFlagBytes(rd[1].entry)) => C2_SameAsMonolithic(1)

\* a raw chunk "ABCDEFGH", then an LZSS chunk of the literal 'M' and a
\* reference to offset 4078 that copies "ABC" out of the raw chunk's bytes
C2_Witness ==
    /\ C2_IsChunking(1)
    /\ C2_CutAtFlagBytes(rd[1].entry)
    /\ C2_Payload(rd[1].entry)
           = <<128, 8, 65, 66, 67, 68, 69, 70, 71, 72, 0, 4, 1, 77, 238, 240>>
    /\ rd[1].data = <<65, 66, 67, 68, 69, 70, 71, 72, 77, 65, 66, 67>>
    /\ rd[1].hdrs = 2

(***************************************************************************)
(* C3                                                                      *)
(***************************************************************************)
\* C3: every entry of the index is found by read_file, exists and get_entry
\* under every request path that differs from its stored path only in letter
\* case and in '/' versus '\', and its index key is the stored path
\* uppercased with '/' turned into '\'.
C3_LookupIgnoresCaseAndSeparator ==
    /\ \A k \in DOMAIN entries :
           k = [i \in 1 .. Len(entries[k].path) |->
                    LET c == UpperChar(entries[k].path[i])
                    IN  IF c = 47 THEN 92 ELSE c]
    /\ \A k \in DOMAIN entries :
           (rd[1].pc \in {"seeked", "chunks", "done"}
            /\ rd[1].path \in Variants(entries[k].path))
           => /\ rd[1].pc = "done" => rd[1].found
              /\ rd[1].op \in {"read_file", "get_entry"} => rd[1].entry = entries[k]

(***************************************************************************)
(* C4                                                                      *)
(***************************************************************************)
\* C4: read_file on an entry with 0x10 in the high nibble of its flags
\* returns exactly unpacked_size bytes.
C4_CompressedReadLength ==
    (ReadDone(1) /\ (rd[1].entry.flags \div 16) % 16 = 1)
    => Len(rd[1].data) = rd[1].entry.unpacked_size

(***************************************************************************)
(* C5                                                                      *)
(***************************************************************************)
\* C5: read_file on an entry whose high nibble is neither 0x10 nor 0x40
\* (0x20 or any unknown value) returns the packed_size bytes stored at the
\* entry's offset, unchanged; the low nibble and the bits above the low byte
\* of the flags word do not change which way the entry is read.
C5_RawAndUnknownReadStoredBytes ==
    ReadDone(1) =>
        LET e == rd[1].entry
        IN  /\ rd[1].data = AloneRead(e)
            /\ (e.flags \div 16) % 16 \notin {1, 4}
               => /\ rd[1].data = Slice(file, e.offset, e.offset + e.packed_size)
                  /\ e.offset + e.packed_size <= Len(file)
                     => Len(rd[1].data) = e.packed_size

\* an entry with flags 0x50 has returned its 3 stored bytes
C5_Witness ==
    /\ ReadDone(1)
    /\ rd[1].entry.flags = 80
    /\ rd[1].entry.packed_size = 3
    /\ Len(rd[1].data) = 3

(***************************************************************************)
(* C6                                                                      *)
(***************************************************************************)
\* C6: under any interleaving of two reads of one open archive, each read
\* returns the bytes it returns when run alone.
C6_InterleavedReadsAsAlone ==
    \A t \in {1, 2} : ReadDone(t) => rd[t].data = AloneRead(rd[t].entry)

(***************************************************************************)
(* C7                                                                      *)
(***************************************************************************)
\* C7: the number of chunk headers a chunked read processes is bounded by a
\* ceiling derived from unpacked_size alone; here the ceiling that lets every
\* chunk but one contribute a byte: unpacked_size + 1.
C7_HeadersBoundedByUnpackedSize ==
    rd[1].branch = "chunked" => rd[1].hdrs <= rd[1].entry.unpacked_size + 1

(***************************************************************************)
(* C8                                                                      *)
(***************************************************************************)
\* C8: a chunked read returns at most unpacked_size bytes, exactly
\* unpacked_size when the chunks read produced that many, everything produced
\* when the input ended first, and it read every chunk header while fewer
\* than unpacked_size bytes had been produced.
C8_ChunkedReadLength ==
    rd[1].branch = "chunked" =>
        LET target == rd[1].entry.unpacked_size
        IN  /\ rd[1].hdrs > 0 => rd[1].at_hdr < target
            /\ rd[1].pc = "done"
               => /\ Len(rd[1].data) <= target
                  /\ Len(rd[1].acc) >= target => Len(rd[1].data) = target
                  /\ Len(rd[1].acc) < target => rd[1].data = rd[1].acc
                  /\ rd[1].data = Slice(rd[1].acc, 0, target)

\* the chunks produced more than the 3 declared bytes: 3 are returned
C8_Witness ==
    /\ ReadDone(1)
    /\ rd[1].branch = "chunked"
    /\ rd[1].entry.unpacked_size = 3
    /\ Len(rd[1].acc) > 3
    /\ Len(rd[1].data) = 3
    /\ rd[1].hdrs = 2

(***************************************************************************)
(* C9                                                                      *)
(***************************************************************************)
\* caller 1 returns, in this step, from a call whose path is not in the index
C9_ReturnsNotFound ==
    /\ rd'[1] # rd[1]
    /\ rd'[1].pc = "done"
    /\ \A k \in DOMAIN entries :
           k # [i \in 1 .. Len(rd'[1].path) |->
                    LET c == UpperChar(rd'[1].path[i]) IN IF c = 47 THEN 92 ELSE c]

\* C9: for a path absent from the index read_file and get_entry return None
\* and exists returns False, and the call leaves the read position, the
\* decoder and the index as they were.
C9_NotFoundChangesNothing ==
    [][C9_ReturnsNotFound =>
           /\ ~rd'[1].found
           /\ rd'[1].data = << >>
           /\ rd'[1].entry = NoEntry
           /\ fpos' = fpos
           /\ ring' = ring
           /\ ring_index' = ring_index
           /\ entries' = entries]_vars

\* read_file returned None for the path "z" after a fully compressed read
\* had moved the read position and written to the ring buffer
C9_Witness ==
    /\ rd[1].pc = "done"
    /\ rd[1].op = "read_file"
    /\ rd[1].path = AbsentPath
    /\ ~rd[1].found
    /\ fpos # ParseIndex(file).pos
    /\ RingByte(ring, 4078) = 65

(***************************************************************************)
(* C10                                                                     *)
(***************************************************************************)
\* C10: opening an archive whose bytes end before the 16-byte root header is
\* complete does not produce an opened archive.
C10_TruncatedRootHeaderFails ==
    Len(file) < 16 => opened # "open"

(***************************************************************************)
(* A direct call of the decoder: decompress(data) of lzss.py.              *)
(***************************************************************************)

\* flag byte 2: a reference copying 18 bytes from offset 4078, which takes the
\* cursor past the end of the ring to offset 0, then the literal 'A' stored
\* at offset 0; bits 2..7 of the flag byte make what follows references
WrapLead == <<2, 238, 255, 65>>

LZSSInputs ==
    ByteStrings(MaxDataLen) \cup {WrapLead \o d : d \in ByteStrings(MaxDataLen - 1)}

InitLZSS ==
    /\ file = << >>
    /\ fpos = 0
    /\ opened = "closed"
    /\ entries = << >>
    /\ ring = ResetRing
    /\ ring_index = RING_BUFFER_FILL
    /\ rd = NoReaders
    /\ lz \in [pc : {"call"}, data : LZSSInputs, out : {<< >>}]
    /\ mp = NoMap
    /\ sc = NoScript

\* decompress(data): compressed_length defaults to len(data)
Decompress ==
    /\ lz.pc = "call"
    /\ LET st == Decode(lz.data, Len(lz.data))
       IN  /\ ring' = st.ring
           /\ ring_index' = st.idx
           /\ lz' = [lz EXCEPT !.pc = "done", !.out = st.out]
    /\ UNCHANGED <<file, fpos, opened, entries, rd, mp, sc>>

NextLZSS == Decompress

SpecLZSS == InitLZSS /\ [][NextLZSS]_vars

(***************************************************************************)
(* C1: what a token stream encodes, stated without the ring buffer.        *)
(***************************************************************************)
\* the tokens of data: each flag byte governs up to 8 tokens, bit 0 first;
\* a token whose bytes are cut off by the end of data encodes nothing
RECURSIVE C1_Tokens(_, _, _, _)
C1_Tokens(data, pos, flags, bit) ==
    IF pos >= Len(data) THEN << >>
    ELSE IF bit = 8 THEN C1_Tokens(data, pos + 1, At(data, pos), 0)
    ELSE IF (flags \div (2 ^ bit)) % 2 = 1
    THEN <<[lit |-> TRUE, b0 |-> At(data, pos), b1 |-> 0]>>
         \o C1_Tokens(data, pos + 1, flags, bit + 1)
    ELSE IF pos + 1 >= Len(data) THEN << >>
    ELSE <<[lit |-> FALSE, b0 |-> At(data, pos), b1 |-> At(data, pos + 1)]>>
         \o C1_Tokens(data, pos + 2, flags, bit + 1)

\* the byte at ring offset p once the bytes of out have been emitted: the
\* j-th emitted byte (from 1) went to offset (4078 + j - 1) mod 4096
C1_RingByte(out, p) ==
    LET js == {j \in 1 .. Len(out) : (4078 + j - 1) % 4096 = p}
    IN  IF js = {} THEN 32 ELSE out[CHOOSE j \in js : \A k \in js : k <= j]

RECURSIVE C1_Copy(_, _, _)
C1_Copy(out, from, n) ==
    IF n = 0 THEN out
    ELSE C1_Copy(Append(out, C1_RingByte(out, from % 4096)), from + 1, n - 1)

RECURSIVE C1_Encoded(_, _, _)
C1_Encoded(tokens, k, out) ==
    IF k > Len(tokens) THEN out
    ELSE LET t == tokens[k]
         IN  IF t.lit THEN C1_Encoded(tokens, k + 1, Append(out, t.b0))
             ELSE C1_Encoded(tokens, k + 1,
                             C1_Copy(out, t.b0 + ((t.b1 \div 16) * 256), (t.b1 % 16) + 3))

\* C1: a one-shot decode with a budget equal to the input's length outputs
\* exactly the bytes the token stream encodes (flag bits low to high, bit 1 a
\* literal, bit 0 a byte-by-byte copy of (b1 & 0x0F) + 3 bytes from ring
\* offset b0 | ((b1 & 0xF0) << 4), overlapping the cursor included).
C1_DecodeExact ==
    lz.pc = "done" => lz.out = C1_Encoded(C1_Tokens(lz.data, 0, 0, 8), 1, << >>)

\* a literal 'A' followed by a reference to the offset it was written at:
\* the copy reads the bytes it has itself just written
C1_Witness ==
    /\ lz.pc = "done"
    /\ lz.data = <<1, 65, 238, 240>>
    /\ lz.out = <<65, 65, 65, 65>>

(***************************************************************************)
(* map.py                                                                  *)
(* A map buffer is [words, tail]: its complete 4-byte groups, each as the  *)
(* signed value struct.unpack('>i') gives for it, and the 0..3 bytes left  *)
(* over at its end.  Every offset the parser reads at is a multiple of 4.  *)
(***************************************************************************)
ELEVATION_COUNT == 3
SCRIPTS_PER_EXTENT == 16
SCRIPT_TYPE_COUNT == 5
HEADER_SIZE == 236

\* ObjectType, ItemType, SceneryType and ScriptType members the parser tests
OBJ_ITEM == 0
OBJ_CRITTER == 1
OBJ_SCENERY == 2
OBJ_MISC == 5
ITEM_WEAPON == 3
ITEM_AMMO == 4
ITEM_MISC == 5
ITEM_KEY == 6
SCENERY_DOOR == 0
SCENERY_STAIRS == 1
SCENERY_ELEVATOR == 2
SCENERY_LADDER_UP == 3
SCENERY_LADDER_DOWN == 4
SCRIPT_SPATIAL == 1
SCRIPT_TIMED == 2

\* bytes of tile data of an elevation whose flag is clear: 10000 * 4
TILE_BYTES == 40000
\* the largest total_count _read_map_data accepts
MAX_TOTAL_COUNT == 50000
\* the first and the last exit grid PID: 0x5000010, 0x5000017
EXIT_GRID_FIRST == 83886096
EXIT_GRID_LAST == 83886103

\* Optional[...]: None, or a value
None == << >>
Some(x) == <<x>>

Max(a, b) == IF a > b THEN a ELSE b

\* len(data)
MapLen(data) == 4 * Len(data.words) + Len(data.tail)

\* struct.unpack('>i', data[off:off+4]) raises struct.error on a short slice
CanUnpack(data, off) == off + 4 <= MapLen(data)
Int32At(data, off) == data.words[(off \div 4) + 1]

\* (x >> 24) & 0xFF of a signed 32-bit x
HighByte(x) == (x \div 16777216) % 256

\* flags & mask for a one-bit mask, of a signed 32-bit flags
HasBit(flags, mask) == (flags \div mask) % 2 = 1

\* the 4 bytes of a word (\div rounds down and % is never negative, which
\* gives the two's complement bytes of a negative word)
WordBytes(w) ==
    <<(w \div 16777216) % 256, (w \div 65536) % 256, (w \div 256) % 256, w % 256>>

\* bytes.rstrip(b'\x00')
RECURSIVE RStripNul(_)
RStripNul(bytes) ==
    IF bytes # << >> /\ bytes[Len(bytes)] = 0
    THEN RStripNul(SubSeq(bytes, 1, Len(bytes) - 1))
    ELSE bytes

\* n successive read_int32 calls of a _BinaryReader at offset off: whether all
\* succeed, and the reader's offset afterwards (a failed read leaves it at the
\* first word that is not complete)
Ints(data, off, n) ==
    IF off + 4 * n <= MapLen(data)
    THEN [ok |-> TRUE, off |-> off + 4 * n]
    ELSE [ok |-> FALSE, off |-> Max(off, 4 * Len(data.words))]

\* _read_header raises struct.error when one of its read_int32 is short: the
\* last one reads the bytes 56..59
HeaderRaises(data) == ~CanUnpack(data, 56)

\* _read_header
ReadHeader(data) ==
    [version |-> Int32At(data, 0),
     name |-> AsciiDecode(RStripNul(WordBytes(Int32At(data, 4)) \o WordBytes(Int32At(data, 8))
                                    \o WordBytes(Int32At(data, 12))
                                    \o WordBytes(Int32At(data, 16)))),
     entering_tile |-> Int32At(data, 20),
     entering_elevation |-> Int32At(data, 24),
     entering_rotation |-> Int32At(data, 28),
     local_variables_count |-> Int32At(data, 32),
     message_list_index |-> Int32At(data, 36),
     flags |-> Int32At(data, 40),
     darkness |-> Int32At(data, 44),
     global_variables_count |-> Int32At(data, 48),
     map_id |-> Int32At(data, 52),
     last_visit_time |-> Int32At(data, 56)]

\* _read_map_data: the offset of the scripts section
ScriptsOffset(header) ==
    HEADER_SIZE
    + (IF header.global_variables_count > 0 THEN header.global_variables_count * 4 ELSE 0)
    + (IF header.local_variables_count > 0 THEN header.local_variables_count * 4 ELSE 0)
    + (IF ~HasBit(header.flags, 2) THEN TILE_BYTES ELSE 0)
    + (IF ~HasBit(header.flags, 4) THEN TILE_BYTES ELSE 0)
    + (IF ~HasBit(header.flags, 8) THEN TILE_BYTES ELSE 0)

\* MapScript()
NewMapScript ==
    [scr_id |-> 0, scr_next |-> 0, built_tile |-> 0, radius |-> 0, time |-> 0,
     scr_flags |-> 0, scr_script_idx |-> 0, scr_oid |-> -1,
     scr_local_var_offset |-> 0, scr_num_local_vars |-> 0, field_28 |-> 0,
     action |-> 0, fixed_param |-> 0, action_being_used |-> 0,
     script_overrides |-> 0, field_48 |-> 0, how_much |-> 0, run_info_flags |-> 0]

\* a plausible slip: every slot is read as a 16-word record
NoExtraWords(sid_type) == 0

\* the words between scr_next and the 14 common fields of a slot
SlotExtraWords(sid_type) ==
    IF sid_type = SCRIPT_SPATIAL THEN 2
    ELSE IF sid_type = SCRIPT_TIMED THEN 1
    ELSE 0

\* one pass of the slot loop of _read_scripts_section; ok is FALSE where the
\* code returns -1 (the length check, or struct.error on a short slice)
ReadSlot(data, offset) ==
    IF offset + 8 > MapLen(data) THEN [ok |-> FALSE, script |-> NewMapScript, offset |-> offset]
    ELSE LET scr_id == Int32At(data, offset)
             sid_type == HighByte(scr_id)
             extra == SlotExtraWords(sid_type)
             o == offset + 8 + 4 * extra
         IN  IF ~CanUnpack(data, o + 52)
             THEN [ok |-> FALSE, script |-> NewMapScript, offset |-> offset]
             ELSE [ok |-> TRUE,
                   script |->
                       [scr_id |-> scr_id,
                        scr_next |-> Int32At(data, offset + 4),
                        built_tile |-> IF sid_type = SCRIPT_SPATIAL
                                       THEN Int32At(data, offset + 8) ELSE 0,
                        radius |-> IF sid_type = SCRIPT_SPATIAL
                                   THEN Int32At(data, offset + 12) ELSE 0,
                        time |-> IF sid_type = SCRIPT_TIMED
                                 THEN Int32At(data, offset + 8) ELSE 0,
                        scr_flags |-> Int32At(data, o),
                        scr_script_idx |-> Int32At(data, o + 4),
                        scr_oid |-> Int32At(data, o + 12),
                        scr_local_var_offset |-> Int32At(data, o + 16),
                        scr_num_local_vars |-> Int32At(data, o + 20),
                        field_28 |-> Int32At(data, o + 24),
                        action |-> Int32At(data, o + 28),
                        fixed_param |-> Int32At(data, o + 32),
                        action_being_used |-> Int32At(data, o + 36),
                        script_overrides |-> Int32At(data, o + 40),
                        field_48 |-> Int32At(data, o + 44),
                        how_much |-> Int32At(data, o + 48),
                        run_info_flags |-> Int32At(data, o + 52)],
                   offset |-> o + 56]

\* the slot loop of one extent: for slot_idx in range(SCRIPTS_PER_EXTENT)
RECURSIVE ReadExtentSlots(_, _, _, _)
ReadExtentSlots(data, offset, slot_idx, extent_scripts) ==
    IF slot_idx = SCRIPTS_PER_EXTENT
    THEN [ok |-> TRUE, extent_scripts |-> extent_scripts, offset |-> offset]
    ELSE LET s == ReadSlot(data, offset)
         IN  IF ~s.ok
             THEN [ok |-> FALSE, extent_scripts |-> extent_scripts, offset |-> offset]
             ELSE ReadExtentSlots(data, s.offset, slot_idx + 1,
                                  Append(extent_scripts, s.script))

\* a plausible slip: all the slots of an extent are kept
KeptSlotsAll(extent_length) == SCRIPTS_PER_EXTENT

\* range(min(extent_length, SCRIPTS_PER_EXTENT)): how many slots are kept
KeptSlots(extent_length) ==
    Max(0, Min(extent_length, SCRIPTS_PER_EXTENT))

\* num_extents = (scripts_count + SCRIPTS_PER_EXTENT - 1) // SCRIPTS_PER_EXTENT
NumExtents(scripts_count) ==
    (scripts_count + SCRIPTS_PER_EXTENT - 1) \div SCRIPTS_PER_EXTENT

\* MapObject()
NewMapObject ==
    [id |-> 0, tile |-> -1, x |-> 0, y |-> 0, sx |-> 0, sy |-> 0, frame |-> 0,
     rotation |-> 0, fid |-> 0, flags |-> 0, elevation |-> 0, pid |-> 0, cid |-> 0,
     light_distance |-> 0, light_intensity |-> 0, sid |-> -1,
     message_list_index |-> -1, inventory_length |-> 0, inventory_capacity |-> 0,
     inventory |-> << >>, critter_data |-> None, item_flags |-> 0,
     weapon_data |-> None, ammo_data |-> None, misc_item_data |-> None,
     key_data |-> None, door_data |-> None, stairs_data |-> None,
     elevator_data |-> None, ladder_data |-> None, exit_grid_data |-> None,
     proto_item_type |-> None, proto_scenery_type |-> None]

\* dict.get(pid) of a PID -> subtype table
Lookup(table, pid) == IF pid \in DOMAIN table THEN Some(table[pid]) ELSE None

\* _read_item_data
ReadItemData(p, data, off, obj) ==
    LET item_type == Lookup(p.item_types, obj.pid)
        o == [obj EXCEPT !.proto_item_type = item_type]
        one == Ints(data, off, 1)
        two == Ints(data, off, 2)
    IN  IF item_type = Some(ITEM_WEAPON)
        THEN IF ~two.ok THEN [ok |-> FALSE, obj |-> o, off |-> two.off]
             ELSE [ok |-> TRUE, off |-> two.off,
                   obj |-> [o EXCEPT !.weapon_data =
                                Some([ammo_quantity |-> Int32At(data, off),
                                      ammo_type_pid |-> Int32At(data, off + 4)])]]
        ELSE IF item_type \in {Some(ITEM_AMMO), Some(ITEM_MISC), Some(ITEM_KEY)}
        THEN IF ~one.ok THEN [ok |-> FALSE, obj |-> o, off |-> one.off]
             ELSE [ok |-> TRUE, off |-> one.off,
                   obj |-> IF item_type = Some(ITEM_AMMO)
                           THEN [o EXCEPT !.ammo_data =
                                    Some([quantity |-> Int32At(data, off)])]
                           ELSE IF item_type = Some(ITEM_MISC)
                           THEN [o EXCEPT !.misc_item_data =
                                    Some([charges |-> Int32At(data, off)])]
                           ELSE [o EXCEPT !.key_data =
                                    Some([key_code |-> Int32At(data, off)])]]
        ELSE [ok |-> TRUE, obj |-> o, off |-> off]

\* _read_scenery_data
ReadSceneryData(p, data, off, obj) ==
    LET scenery_type == Lookup(p.scenery_types, obj.pid)
        o == [obj EXCEPT !.proto_scenery_type = scenery_type]
        one == Ints(data, off, 1)
        two == Ints(data, off, 2)
    IN  IF scenery_type = Some(SCENERY_DOOR)
        THEN IF ~one.ok THEN [ok |-> FALSE, obj |-> o, off |-> one.off]
             ELSE [ok |-> TRUE, off |-> one.off,
                   obj |-> [o EXCEPT !.door_data =
                                Some([open_flags |-> Int32At(data, off)])]]
        ELSE IF scenery_type \in {Some(SCENERY_STAIRS), Some(SCENERY_ELEVATOR)}
        THEN IF ~two.ok THEN [ok |-> FALSE, obj |-> o, off |-> two.off]
             ELSE [ok |-> TRUE, off |-> two.off,
                   obj |-> IF scenery_type = Some(SCENERY_STAIRS)
                           THEN [o EXCEPT !.stairs_data =
                                    Some([destination_map |-> Int32At(data, off),
                                          destination_built_tile |->
                                              Int32At(data, off + 4)])]
                           ELSE [o EXCEPT !.elevator_data =
                                    Some([type |-> Int32At(data, off),
                                          level |-> Int32At(data, off + 4)])]]
        ELSE IF scenery_type \in {Some(SCENERY_LADDER_UP), Some(SCENERY_LADDER_DOWN)}
        THEN IF ~one.ok THEN [ok |-> FALSE, obj |-> o, off |-> one.off]
             ELSE [ok |-> TRUE, off |-> one.off,
                   obj |-> [o EXCEPT !.ladder_data =
                                Some([destination_built_tile |-> Int32At(data, off)])]]
        ELSE [ok |-> TRUE, obj |-> o, off |-> off]

\* a plausible slip: every Misc object is read as an exit grid
IsExitGridAnyMisc(pid) == TRUE

\* 0x5000010 <= obj.pid <= 0x5000017
IsExitGrid(pid) == EXIT_GRID_FIRST <= pid /\ pid <= EXIT_GRID_LAST

\* _read_misc_data
ReadMiscData(data, off, obj) ==
    LET four == Ints(data, off, 4)
    IN  IF IsExitGrid(obj.pid)
        THEN IF ~four.ok THEN [ok |-> FALSE, obj |-> obj, off |-> four.off]
             ELSE [ok |-> TRUE, off |-> four.off,
                   obj |-> [obj EXCEPT !.exit_grid_data =
                                Some([map |-> Int32At(data, off),
                                      tile |-> Int32At(data, off + 4),
                                      elevation |-> Int32At(data, off + 8),
                                      rotation |-> Int32At(data, off + 12)])]]
        ELSE [ok |-> TRUE, obj |-> obj, off |-> off]

\* _read_proto_update_data
ReadProtoUpdateData(p, data, off, obj) ==
    LET h == Ints(data, off, 3)
        o == [obj EXCEPT !.inventory_length = Int32At(data, off),
                         !.inventory_capacity = Int32At(data, off + 4)]
        obj_type_raw == HighByte(obj.pid)
        c == Ints(data, h.off, 11)
        w(k) == Int32At(data, h.off + 4 * k)
        f == Ints(data, h.off, 1)
        n == [o EXCEPT !.item_flags = w(0)]
    IN  IF ~h.ok THEN [ok |-> FALSE, obj |-> obj, off |-> h.off]
        ELSE IF obj_type_raw = OBJ_CRITTER
        THEN IF ~c.ok THEN [ok |-> FALSE, obj |-> o, off |-> c.off]
             ELSE [ok |-> TRUE, off |-> c.off,
                   obj |-> [o EXCEPT !.critter_data =
                                Some([reaction |-> w(0),
                                      combat |-> [damage_last_turn |-> w(1),
                                                  maneuver |-> w(2), ap |-> w(3),
                                                  results |-> w(4), ai_packet |-> w(5),
                                                  team |-> w(6),
                                                  who_hit_me_cid |-> w(7)],
                                      hp |-> w(8), radiation |-> w(9),
                                      poison |-> w(10)])]]
        ELSE IF ~f.ok THEN [ok |-> FALSE, obj |-> o, off |-> f.off]
        ELSE IF obj_type_raw = OBJ_ITEM THEN ReadItemData(p, data, f.off, n)
        ELSE IF obj_type_raw = OBJ_SCENERY THEN ReadSceneryData(p, data, f.off, n)
        ELSE IF obj_type_raw = OBJ_MISC THEN ReadMiscData(data, f.off, n)
        ELSE [ok |-> TRUE, obj |-> n, off |-> f.off]

\* a plausible slip: the elevation stored in the record is kept
KeepStoredElevation(stored, elevation) == stored

\* obj.elevation = elevation
OverrideElevation(stored, elevation) == elevation

\* _read_object, and its inventory loop; obj is None where the code returns
\* None, off is where the shared reader stands afterwards
RECURSIVE ReadObject(_, _, _, _)
RECURSIVE ReadInventory(_, _, _, _, _, _)
ReadObject(p, data, off, elevation) ==
    LET base == Ints(data, off, 18)
        w(k) == Int32At(data, off + 4 * k)
        obj == [NewMapObject EXCEPT
                   !.id = w(0), !.tile = w(1), !.x = w(2), !.y = w(3), !.sx = w(4),
                   !.sy = w(5), !.frame = w(6), !.rotation = w(7), !.fid = w(8),
                   !.flags = w(9), !.elevation = OverrideElevation(w(10), elevation),
                   !.pid = w(11), !.cid = w(12), !.light_distance = w(13),
                   !.light_intensity = w(14), !.sid = w(16),
                   !.message_list_index = w(17)]
    IN  IF ~base.ok THEN [obj |-> None, off |-> base.off]
        ELSE LET u == ReadProtoUpdateData(p, data, base.off, obj)
             IN  IF ~u.ok THEN [obj |-> None, off |-> u.off]
                 ELSE IF u.obj.inventory_length > 0
                 THEN LET inv == ReadInventory(p, data, u.off, u.obj.inventory_length,
                                               elevation, << >>)
                      IN  IF ~inv.ok THEN [obj |-> None, off |-> inv.off]
                          ELSE [obj |-> Some([u.obj EXCEPT !.inventory = inv.items]),
                                off |-> inv.off]
                 ELSE [obj |-> Some(u.obj), off |-> u.off]

ReadInventory(p, data, off, n, elevation, items) ==
    IF n = 0 THEN [ok |-> TRUE, items |-> items, off |-> off]
    ELSE LET q == Ints(data, off, 1)
         IN  IF ~q.ok THEN [ok |-> FALSE, items |-> items, off |-> q.off]
             ELSE LET r == ReadObject(p, data, q.off, elevation)
                      kept == IF r.obj # None
                              THEN Append(items, [quantity |-> Int32At(data, off),
                                                  item |-> r.obj[1]])
                              ELSE items
                  IN  ReadInventory(p, data, r.off, n - 1, elevation, kept)

(***************************************************************************)
(* MapParser.parse, in the steps of its loops.  mp.pc is the place the     *)
(* call has reached: "call", "bucket" (head of the script type loop),      *)
(* "extent" (head of the extent loop), "objects" (the objects section),    *)
(* "elevation" (head of the elevation loop), "object" (head of the object  *)
(* loop), "done" (parse returned mp.map) or "raised" (parse raised).       *)
(***************************************************************************)
EmptyByType == [i \in 0 .. SCRIPT_TYPE_COUNT - 1 |-> << >>]
EmptyByElevation == [i \in 0 .. ELEVATION_COUNT - 1 |-> << >>]

\* parse(data) about to be called on a parser built with the tables p
MapCall(data, p) ==
    [pc |-> "call", data |-> data, p |-> p, header |-> None, offset |-> 0,
     script_type |-> 0, num_extents |-> 0, extent_idx |-> 0,
     extent_scripts |-> << >>, all_scripts |-> << >>,
     scripts_by_type |-> EmptyByType, objects |-> << >>,
     objects_by_elevation |-> EmptyByElevation, total_count |-> 0,
     elevation |-> 0, left |-> 0, map |-> None]

\* a plausible slip: a scripts section that aborts returns no scripts
MapReturnNothingOnAbort(m) ==
    LET aborted == m.pc \in {"bucket", "extent"}
    IN  [m EXCEPT !.pc = "done",
                  !.map = Some([header |-> m.header[1], objects |-> m.objects,
                                objects_by_elevation |-> m.objects_by_elevation,
                                scripts |-> IF aborted THEN << >> ELSE m.all_scripts,
                                scripts_by_type |-> IF aborted THEN EmptyByType
                                                    ELSE m.scripts_by_type])]


\* return Map(...) of parse with what _read_map_data returned
MapReturn(m) ==
    [m EXCEPT !.pc = "done",
              !.map = Some([header |-> m.header[1], objects |-> m.objects,
                            objects_by_elevation |-> m.objects_by_elevation,
                            scripts |-> m.all_scripts,
                            scripts_by_type |-> m.scripts_by_type])]

\* the script type loop moves on to its next pass, or ends: the objects
\* section starts at the offset reached
NextBucket(m) ==
    IF m.script_type + 1 = SCRIPT_TYPE_COUNT
    THEN [m EXCEPT !.pc = "objects"]
    ELSE [m EXCEPT !.pc = "bucket", !.script_type = @ + 1]

\* the elevation loop moves on to its next pass, or ends
NextElevation(m) ==
    IF m.elevation + 1 = ELEVATION_COUNT
    THEN MapReturn(m)
    ELSE [m EXCEPT !.pc = "elevation", !.elevation = @ + 1]

\* a plausible slip: a record that failed to parse is added with its defaults
AppendOrDefault(objects, obj) ==
    IF obj # None THEN Append(objects, obj[1]) ELSE Append(objects, NewMapObject)

\* if obj: objects.append(obj)
AppendIfParsed(objects, obj) ==
    IF obj # None THEN Append(objects, obj[1]) ELSE objects

MapUnchanged == UNCHANGED <<file, fpos, opened, entries, ring, ring_index, rd, lz, sc>>

\* parse: _read_header, then _read_map_data up to its scripts section
MapParse ==
    /\ mp.pc = "call"
    /\ mp' = IF HeaderRaises(mp.data) THEN [mp EXCEPT !.pc = "raised"]
             ELSE LET header == ReadHeader(mp.data)
                  IN  [mp EXCEPT !.pc = "bucket", !.header = Some(header),
                                 !.offset = ScriptsOffset(header)]
    /\ MapUnchanged

\* _read_scripts_section: the head of one pass of the script type loop
MapBucket ==
    /\ mp.pc = "bucket"
    /\ mp' = IF mp.offset + 4 > MapLen(mp.data) THEN MapReturn(mp)
             ELSE LET scripts_count == Int32At(mp.data, mp.offset)
                      m == [mp EXCEPT !.offset = @ + 4]
                  IN  IF scripts_count <= 0 THEN NextBucket(m)
                      ELSE [m EXCEPT !.pc = "extent",
                                     !.num_extents = NumExtents(scripts_count),
                                     !.extent_idx = 0]
    /\ MapUnchanged

\* _read_scripts_section: one pass of the extent loop
MapExtent ==
    /\ mp.pc = "extent"
    /\ mp' = LET r == ReadExtentSlots(mp.data, mp.offset, 0, << >>)
             IN  IF ~r.ok \/ ~CanUnpack(mp.data, r.offset) THEN MapReturn(mp)
                 ELSE LET extent_length == Int32At(mp.data, r.offset)
                          kept == SubSeq(r.extent_scripts, 1, KeptSlots(extent_length))
                          m == [mp EXCEPT
                                   !.offset = r.offset + 8,
                                   !.extent_scripts = r.extent_scripts,
                                   !.all_scripts = @ \o kept,
                                   !.scripts_by_type[mp.script_type] = @ \o kept,
                                   !.extent_idx = @ + 1]
                      IN  IF m.extent_idx = m.num_extents THEN NextBucket(m) ELSE m
    /\ MapUnchanged

\* _read_map_data: total_count, read by a reader at the offset the scripts
\* section ended at
MapObjects ==
    /\ mp.pc = "objects"
    /\ mp' = LET t == Ints(mp.data, mp.offset, 1)
                 total_count == Int32At(mp.data, mp.offset)
             IN  IF ~t.ok THEN MapReturn(mp)
                 ELSE IF total_count < 0 \/ total_count > MAX_TOTAL_COUNT
                 THEN MapReturn([mp EXCEPT !.offset = t.off])
                 ELSE [mp EXCEPT !.pc = "elevation", !.offset = t.off,
                                 !.total_count = total_count, !.elevation = 0]
    /\ MapUnchanged

\* _read_map_data: the head of one pass of the elevation loop
MapElevation ==
    /\ mp.pc = "elevation"
    /\ mp' = LET c == Ints(mp.data, mp.offset, 1)
                 elev_count == Int32At(mp.data, mp.offset)
                 m == [mp EXCEPT !.offset = c.off]
             IN  IF ~c.ok THEN MapReturn(m)
                 ELSE IF elev_count < 0 \/ elev_count > mp.total_count THEN MapReturn(m)
                 ELSE IF elev_count = 0 THEN NextElevation(m)
                 ELSE [m EXCEPT !.pc = "object", !.left = elev_count]
    /\ MapUnchanged

\* _read_map_data: one pass of the object loop of an elevation
MapObject ==
    /\ mp.pc = "object"
    /\ mp' = LET r == ReadObject(mp.p, mp.data, mp.offset, mp.elevation)
                 m == [mp EXCEPT
                          !.offset = r.off,
                          !.objects = AppendIfParsed(@, r.obj),
                          !.objects_by_elevation[mp.elevation] = AppendIfParsed(@, r.obj),
                          !.left = @ - 1]
             IN  IF m.left = 0 THEN NextElevation(m) ELSE m
    /\ MapUnchanged

NextMap ==
    \/ MapParse
    \/ MapBucket
    \/ MapExtent
    \/ MapObjects
    \/ MapElevation
    \/ MapObject

(***************************************************************************)
(* Map buffers parse is called on.                                         *)
(***************************************************************************)
\* top-level objects of a well-formed map
MaxMapObjects == 3
\* extents of a script bucket
MaxExtents == 2

Zeros(n) == [i \in 1 .. n |-> 0]

MapData(words) == [words |-> words, tail |-> << >>]

\* the first n bytes of a buffer
CutMap(words, n) ==
    [words |-> SubSeq(words, 1, n \div 4),
     tail |-> SubSeq(WordBytes(words[(n \div 4) + 1]), 1, n % 4)]

\* the 59 words of a header: version 19, name "MAP", the flags word and the
\* two variable counts given, 44 reserved words
HeaderWords(flags, gvars, lvars) ==
    <<19, 1296125952, 0, 0, 0, 100, 0, 0, lvars, -1, flags, 0, gvars, 7, 0>> \o Zeros(44)

\* a header that stores no variables and no tiles
PlainHeader == HeaderWords(14, 0, 0)

\* a script slot whose identifier carries the tag in its high byte, written in
\* the shape of that tag; mark is stored in scr_flags (and mark + 1, mark + 2
\* in the words of a Spatial or Timed slot)
SlotWords(tag, mark) ==
    <<(IF tag >= 128 THEN tag - 256 ELSE tag) * 16777216 + mark, 0>>
    \o (IF tag = 1 THEN <<mark + 1, mark + 2>> ELSE IF tag = 2 THEN <<mark + 1>> ELSE << >>)
    \o <<mark, 5, 0, -1>> \o Zeros(10)

\* the tags of the 16 slots of an extent: every known tag, an unknown one and
\* one with the sign bit set, starting at shift
TagCycle == <<0, 1, 2, 3, 4, 9, 255>>
TagOfSlot(shift, i) == TagCycle[((i + shift) % Len(TagCycle)) + 1]

ExtentWords(shift, first_mark, extent_length) ==
    Flatten([i \in 1 .. SCRIPTS_PER_EXTENT |->
                 SlotWords(TagOfSlot(shift, i), first_mark + 10 * i)])
    \o <<extent_length, 0>>

\* a bucket: its count, then one extent per declared length
BucketWords(scripts_count, shift, lengths) ==
    <<scripts_count>>
    \o Flatten([e \in 1 .. Len(lengths) |-> ExtentWords(shift + e, 1000 * e, lengths[e])])

\* a scripts section with one filled bucket
ScriptsWords(bucket, scripts_count, shift, lengths) ==
    Zeros(bucket) \o BucketWords(scripts_count, shift, lengths)
    \o Zeros(SCRIPT_TYPE_COUNT - 1 - bucket)

\* an object record: o = [id, elev, pid, payload, inv], payload being the words
\* between the inventory header and the inventory
RECURSIVE ObjWords(_)
ObjWords(o) ==
    <<o.id, 10, 0, 0, 0, 0, 0, 0, 0, 0, o.elev, o.pid, 0, 0, 0, 0, -1, -1>>
    \o <<Len(o.inv), Len(o.inv), 0>>
    \o o.payload
    \o Flatten([i \in 1 .. Len(o.inv) |-> <<o.inv[i].quantity>> \o ObjWords(o.inv[i].item)])

\* an objects section: elevs[e] are the objects of elevation e - 1
ObjectsWords(elevs) ==
    <<Len(elevs[1]) + Len(elevs[2]) + Len(elevs[3])>>
    \o Flatten([e \in 1 .. 3 |->
                    <<Len(elevs[e])>> \o Flatten([i \in 1 .. Len(elevs[e]) |->
                                                     ObjWords(elevs[e][i])])])

Obj(id, elev, pid, payload, inv) ==
    [id |-> id, elev |-> elev, pid |-> pid, payload |-> payload, inv |-> inv]

\* the subtype tables of a parser: item PIDs 1..6 and scenery PIDs
\* 0x2000001..0x2000006
StdTables ==
    [item_types |-> (1 :> 3) @@ (2 :> 4) @@ (3 :> 5) @@ (4 :> 6) @@ (5 :> 0) @@ (6 :> 9),
     scenery_types |-> (33554433 :> 0) @@ (33554434 :> 1) @@ (33554435 :> 2)
                       @@ (33554436 :> 3) @@ (33554437 :> 4) @@ (33554438 :> 5)]

\* MapParser(): both tables omitted
NoTables == [item_types |-> << >>, scenery_types |-> << >>]

\* the subtypes of StdTables exchanged: weapons are ammo, doors are stairs
OtherTables ==
    [item_types |-> (1 :> 4) @@ (2 :> 3) @@ (3 :> 0),
     scenery_types |-> (33554433 :> 1) @@ (33554434 :> 0) @@ (33554438 :> 3)]

\* objects of every kind, written in the shape StdTables gives them: a
\* critter, the six items, the six sceneries, a wall, an exit grid, two other
\* Misc objects, and two objects with a tag that is no ObjectType
KindSet ==
    {Obj(1, 0, 16777217, <<50, 1, 2, 3, 4, 5, 6, -1, 30, 0, 0>>, << >>),
     Obj(2, 0, 1, <<8, 24, 77>>, << >>),
     Obj(3, 0, 2, <<8, 24>>, << >>),
     Obj(4, 0, 3, <<8, 24>>, << >>),
     Obj(5, 0, 4, <<8, 24>>, << >>),
     Obj(6, 0, 5, <<8>>, << >>),
     Obj(7, 0, 6, <<8>>, << >>),
     Obj(8, 0, 7, <<8>>, << >>),
     Obj(9, 0, 33554433, <<8, 24>>, << >>),
     Obj(10, 0, 33554434, <<8, 24, 77>>, << >>),
     Obj(11, 0, 33554435, <<8, 24, 77>>, << >>),
     Obj(12, 0, 33554436, <<8, 24>>, << >>),
     Obj(13, 0, 33554437, <<8, 24>>, << >>),
     Obj(14, 0, 33554438, <<8>>, << >>),
     Obj(15, 0, 33554439, <<8>>, << >>),
     Obj(16, 0, 50331649, <<8>>, << >>),
     Obj(17, 0, 83886096, <<8, 3, 200, 1, 0>>, << >>),
     Obj(18, 0, 83886103, <<8, 3, 200, 1, 0>>, << >>),
     Obj(19, 0, 83886095, <<8>>, << >>),
     Obj(20, 0, 83886104, <<8>>, << >>),
     Obj(21, 0, 2130706433, <<8>>, << >>),
     Obj(22, 0, -1, <<8>>, << >>)}

\* a critter that marks where the record after an object has to start
Marker == Obj(99, 0, 16777218, <<51, 1, 2, 3, 4, 5, 6, -1, 31, 0, 0>>, << >>)

\* one object of every kind followed by the marker, on every elevation
KindMaps ==
    {MapData(PlainHeader \o Zeros(SCRIPT_TYPE_COUNT)
             \o ObjectsWords([e \in 1 .. 3 |-> IF e = at THEN <<k, Marker>> ELSE << >>])) :
        k \in KindSet, at \in 1 .. 3}

\* a critter carrying a weapon and a container (an item of subtype 0 is read
\* without payload) that holds a key; the stored elevations are 2, 1, 0, 1
Carrier(id, elev) ==
    Obj(id, elev, 16777217, <<50, 1, 2, 3, 4, 5, 6, -1, 30, 0, 0>>,
        <<[quantity |-> 1, item |-> Obj(id + 1, 1, 1, <<8, 24, 77>>, << >>)],
          [quantity |-> 2,
           item |-> Obj(id + 2, 0, 5, <<8>>,
                        <<[quantity |-> 3, item |-> Obj(id + 3, 1, 4, <<8, 24>>, << >>)]>>)]>>)

\* the i-th top-level object of a well-formed map: a carrier, a weapon, an
\* exit grid, ...
NthObject(i) ==
    IF i % 3 = 1 THEN Carrier(10 * i, 2)
    ELSE IF i % 3 = 2 THEN Obj(10 * i, 1, 1, <<8, 24, 77>>, << >>)
    ELSE Obj(10 * i, 0, 83886096, <<8, 3, 200, 1, 0>>, << >>)

\* the ways to place n objects, in file order, on the three elevations
Placements(n) ==
    {<<a, b, n - a - b>> : a \in 0 .. n, b \in 0 .. n} \cap (Nat \X Nat \X Nat)

PlacedObjects(pl) ==
    [e \in 1 .. 3 |->
        [i \in 1 .. pl[e] |-> NthObject(i + (IF e > 1 THEN pl[1] ELSE 0)
                                          + (IF e > 2 THEN pl[2] ELSE 0))]]

WellFormedWords(pl) ==
    PlainHeader \o Zeros(SCRIPT_TYPE_COUNT) \o ObjectsWords(PlacedObjects(pl))

WellFormedMaps ==
    {MapData(WellFormedWords(pl)) : pl \in UNION {Placements(n) : n \in 0 .. MaxMapObjects}}

\* a well-formed map cut at every word from its objects section on
ObjectsStart == Len(PlainHeader) + SCRIPT_TYPE_COUNT
CutObjectsMaps ==
    UNION {{CutMap(WellFormedWords(pl), 4 * n) :
               n \in ObjectsStart .. Len(WellFormedWords(pl)) - 1} :
           pl \in UNION {Placements(n) : n \in 1 .. MaxMapObjects}}

\* a map with one weapon, cut at every byte
SmallMapWords ==
    PlainHeader \o Zeros(SCRIPT_TYPE_COUNT)
    \o ObjectsWords(<<<<Obj(1, 0, 1, <<8, 24, 77>>, << >>)>>, << >>, << >>>>)
CutBytesMaps ==
    {CutMap(SmallMapWords, n) : n \in 0 .. 4 * Len(SmallMapWords) - 1}

\* one bucket filled with a count that needs 1 .. MaxExtents extents (the
\* least and the largest such count), the non-final extents declaring 16 or 5
\* valid slots and the final one -1, 0, 5, 16 or 20, followed by an objects
\* section holding the marker
ExtentLengths(n) ==
    {ls \in [1 .. n -> {-1, 0, 5, 16, 20}] : \A e \in 1 .. n - 1 : ls[e] \in {5, 16}}
CountsAndLengths ==
    UNION {{<<c, ls>> : c \in {16 * n - 15, 16 * n}, ls \in ExtentLengths(n)} :
           n \in 1 .. MaxExtents}
ScriptMapWords(bucket, scripts_count, shift, lengths) ==
    PlainHeader \o ScriptsWords(bucket, scripts_count, shift, lengths)
    \o ObjectsWords(<<<<Marker>>, << >>, << >>>>)
ScriptMaps ==
    {MapData(ScriptMapWords(bucket, cl[1], shift, cl[2])) :
        bucket \in {0, 4}, shift \in {0, 1}, cl \in CountsAndLengths}

\* a bucket whose count is negative, or larger than the extents stored
OddCountMaps ==
    {MapData(ScriptMapWords(1, c, 0, <<16>>)) : c \in {-3, 17, 1000000}}

\* a map with a full and a partial extent, cut at every 5th word from its
\* scripts section on
TwoExtentWords == ScriptMapWords(1, 20, 0, <<16, 4>>)
CutScriptsMaps ==
    {CutMap(TwoExtentWords, 4 * (Len(PlainHeader) + 5 * n)) :
        n \in 0 .. ((Len(TwoExtentWords) - Len(PlainHeader) - 1) \div 5)}

\* headers whose counts and flags are negative, oversized or leave tile data
\* to skip, before the sections of the small map
OddHeaderMaps ==
    {MapData(HeaderWords(f, g, l) \o SubSeq(SmallMapWords, 60, Len(SmallMapWords))) :
        f \in {14, 0, 12, -1}, g \in {-1, 0, 1, 500000000}, l \in {-5, 0, 1}}

\* objects sections whose total and elevation counts are negative, oversized
\* or larger than the records stored
Weapon == Obj(1, 0, 1, <<8, 24, 77>>, << >>)
OddCountsMaps ==
    {MapData(PlainHeader \o Zeros(SCRIPT_TYPE_COUNT) \o <<t, c>> \o ObjWords(Weapon) \o <<c2, 0>>) :
        t \in {-1, 0, 1, 2, 50000, 50001}, c \in {-1, 0, 1, 2, 3}, c2 \in {0, 1}}

\* a record whose inventory length is negative or larger than the records
\* stored
OddInventoryWords(n) ==
    <<1, 10, 0, 0, 0, 0, 0, 0, 0, 0, 0, 16777217, 0, 0, 0, 0, -1, -1>>
    \o <<n, 0, 0>> \o <<50, 1, 2, 3, 4, 5, 6, -1, 30, 0, 0>>
    \o <<1>> \o ObjWords(Weapon)
OddInventoryMaps ==
    {MapData(PlainHeader \o Zeros(SCRIPT_TYPE_COUNT) \o <<2, 2>> \o OddInventoryWords(n)
             \o ObjWords(Marker) \o <<0, 0>>) :
        n \in {-1, 0, 1, 2, 2147483647}}

\* a critter that declares one inventory entry and stores it, a weapon; the
\* buffer is cut at every word of the entry
CutInventoryWords ==
    PlainHeader \o Zeros(SCRIPT_TYPE_COUNT) \o <<1, 1>> \o OddInventoryWords(1) \o <<0, 0>>
CutInventoryMaps ==
    {CutMap(CutInventoryWords, 4 * n) :
        n \in Len(CutInventoryWords) - 2 - Len(ObjWords(Weapon)) - 1
               .. Len(CutInventoryWords) - 1}

\* objects sections that declare a total of t objects and store t weapons on
\* each of the three elevations
FullElevationsMaps ==
    {MapData(PlainHeader \o Zeros(SCRIPT_TYPE_COUNT) \o <<t>>
             \o Flatten([e \in 1 .. 3 |->
                    <<t>> \o Flatten([i \in 1 .. t |->
                                ObjWords(Obj(10 * e + i, 0, 1, <<8, 24, 77>>, << >>))])])) :
        t \in 1 .. MaxMapObjects}

MapCalls ==
    {MapCall(d, p) : d \in KindMaps, p \in {StdTables, NoTables, OtherTables}}
    \cup {MapCall(d, StdTables) :
             d \in WellFormedMaps \cup CutObjectsMaps \cup CutBytesMaps \cup ScriptMaps
                   \cup OddCountMaps \cup CutScriptsMaps \cup OddHeaderMaps
                   \cup OddCountsMaps \cup OddInventoryMaps \cup CutInventoryMaps
                   \cup FullElevationsMaps}

InitMap ==
    /\ file = << >>
    /\ fpos = 0
    /\ opened = "closed"
    /\ entries = << >>
    /\ ring = ResetRing
    /\ ring_index = RING_BUFFER_FILL
    /\ rd = NoReaders
    /\ lz = [pc |-> "none", data |-> << >>, out |-> << >>]
    /\ mp \in MapCalls
    /\ sc = NoScript

SpecMap == InitMap /\ [][NextMap]_vars

(***************************************************************************)
(* script.py: Script and ScriptIterator.  A script buffer is a sequence of *)
(* bytes.  A value read by read_long is an unsigned 32-bit number, and the *)
(* offsets computed from it are unbounded Python ints; both are kept as    *)
(* their quotient and remainder by 65536.                                  *)
(***************************************************************************)
PROCEDURES_OFFSET == 42
PROCEDURE_SIZE == 24
\* base_opcode == 0x001
PUSH == 1
\* Opcode.PUSH and the members of ValueType
OPCODE_PUSH == 32769
VALUE_INT == 49153
VALUE_FLOAT == 40961
VALUE_STRING == 36865
VALUE_DYNAMIC_STRING == 38913

Wide(hi, lo) == [hi |-> hi, lo |-> lo]
WideOf(n) == Wide(n \div 65536, n % 65536)
WideAdd(a, b) ==
    LET s == a.lo + b.lo
    IN  Wide(a.hi + b.hi + (s \div 65536), s % 65536)
WideLeq(a, b) == a.hi < b.hi \/ (a.hi = b.hi /\ a.lo <= b.lo)
\* a wide value known to be at most the length of the buffer
WideInt(a) == a.hi * 65536 + a.lo

\* read_word: struct.unpack('>H'); IndexError where CanReadWord is FALSE
CanReadWord(data, offset) == offset + 2 <= Len(data)
ReadWord(data, offset) == data[offset + 1] * 256 + data[offset + 2]

\* read_long: struct.unpack('>I'); IndexError where CanReadLong is FALSE
CanReadLong(data, offset) == offset + 4 <= Len(data)
ReadLong(data, offset) ==
    Wide(data[offset + 1] * 256 + data[offset + 2],
         data[offset + 3] * 256 + data[offset + 4])

\* while end < len(self._data) and self._data[end] != 0: end += 1
RECURSIVE NulEnd(_, _)
NulEnd(data, end) ==
    IF end < Len(data) /\ data[end + 1] # 0 THEN NulEnd(data, end + 1) ELSE end

\* the tail shared by get_identifier and get_static_string; the offset of a
\* script is never negative
StringAt(data, abs_offset) ==
    IF WideLeq(WideOf(Len(data)), abs_offset) THEN << >>
    ELSE LET a == WideInt(abs_offset)
         IN  AsciiDecode(SubSeq(data, a + 1, NulEnd(data, a)))

\* a plausible slip: identifiers are looked up past the length field, as
\* static strings are
GetIdentifierPastLength(s, offset) ==
    StringAt(s.data, WideAdd(WideOf(s.identifiers_offset + 4), offset))


GetIdentifier(s, offset) ==
    StringAt(s.data, WideAdd(WideOf(s.identifiers_offset), offset))

GetStaticString(s, offset) ==
    StringAt(s.data, WideAdd(WideAdd(s.static_strings_offset, WideOf(4)), offset))

\* a plausible slip: the loop reads a record whether or not it is stored whole
ProcFitsAlways(ptr, len) == TRUE

\* the guard of the procedure loop: if ptr + PROCEDURE_SIZE > len: break
ProcFits(ptr, len) == ptr + PROCEDURE_SIZE <= len

\* for i in range(proc_count)
InRange(i, proc_count) == WideLeq(WideOf(i + 1), proc_count)

\* one Procedure of the table, its name not yet resolved
ReadProcedure(data, ptr, i) ==
    [index |-> i,
     name_offset |-> ReadLong(data, ptr),
     flags |-> ReadLong(data, ptr + 4),
     time_value |-> ReadLong(data, ptr + 8),
     condition_address |-> ReadLong(data, ptr + 12),
     code_address |-> ReadLong(data, ptr + 16),
     arg_count |-> ReadLong(data, ptr + 20),
     name |-> << >>]

\* _parse after the procedure loop: the two tables, the end of the code and
\* the names of the procedures
ParseTables(s) ==
    LET len == Len(s.data)
        identifiers_size ==
            IF s.ptr + 4 <= len THEN ReadLong(s.data, s.ptr) ELSE WideOf(0)
        static_strings_offset == WideAdd(WideOf(s.ptr + 4), identifiers_size)
        has_size == WideLeq(WideAdd(static_strings_offset, WideOf(4)), WideOf(len))
        raw_size == ReadLong(s.data, WideInt(static_strings_offset))
        static_strings_size ==
            IF ~has_size THEN 0
            ELSE IF ~WideLeq(raw_size, WideOf(len)) \/ raw_size = Wide(65535, 65535)
            THEN len - WideInt(static_strings_offset) - 4
            ELSE WideInt(raw_size)
        t == [s EXCEPT !.identifiers_offset = s.ptr,
                       !.identifiers_size = identifiers_size,
                       !.static_strings_offset = static_strings_offset,
                       !.static_strings_size = static_strings_size,
                       !.code_end = len]
    IN  [t EXCEPT !.pc = "built",
                  !.procedures = [k \in 1 .. Len(s.procedures) |->
                                     [s.procedures[k] EXCEPT
                                         !.name = GetIdentifier(t, s.procedures[k].name_offset)]]]

\* _to_signed32
ToSigned32(value) ==
    IF value.hi >= 32768 THEN (value.hi - 65536) * 65536 + value.lo
    ELSE value.hi * 65536 + value.lo

\* struct.unpack('>f', struct.pack('>I', raw_value)): the sign, the biased
\* exponent and the fraction of the IEEE-754 single
UnpackFloat(value) ==
    <<value.hi \div 32768, (value.hi \div 128) % 256, (value.hi % 128) * 65536 + value.lo>>

\* a plausible slip: the float flag is not looked at
OperandTypeNoFloat(high_byte) ==
    IF HasBit(high_byte, 64) THEN "int"
    ELSE IF HasBit(high_byte, 16) THEN "string"
    ELSE IF HasBit(high_byte, 8) THEN "dynamic_string_offset"
    ELSE "int"

\* the if/elif chain of next() over the flags of the high byte
OperandType(high_byte) ==
    IF HasBit(high_byte, 64) THEN "int"
    ELSE IF HasBit(high_byte, 32) THEN "float"
    ELSE IF HasBit(high_byte, 16) THEN "string"
    ELSE IF HasBit(high_byte, 8) THEN "dynamic_string_offset"
    ELSE "int"

\* instruction.operand: an int as <<n>>, a float as <<sign, exponent,
\* fraction>>, a string as its code points, a raw offset as <<hi, lo>>
Operand(s, operand_type, raw_value) ==
    IF operand_type = "int" THEN <<ToSigned32(raw_value)>>
    ELSE IF operand_type = "float" THEN UnpackFloat(raw_value)
    ELSE IF operand_type = "string" THEN GetStaticString(s, raw_value)
    ELSE <<raw_value.hi, raw_value.lo>>

HasMore(s, offset) == offset + 2 <= s.code_end

\* ScriptIterator.next on the script s, whose bytes are data, at offset, where
\* has_more() holds
NextInstruction(s, data, offset) ==
    LET opcode == ReadWord(data, offset)
        base_opcode == opcode % 1024
        high_byte == (opcode \div 256) % 256
    IN  IF base_opcode = PUSH /\ offset + 2 + 4 <= s.code_end
        THEN LET raw_value == ReadLong(data, offset + 2)
                 operand_type == OperandType(high_byte)
             IN  [instruction |->
                      [offset |-> offset, opcode |-> opcode,
                       operand |-> Some(Operand([s EXCEPT !.data = data], operand_type, raw_value)),
                       operand_type |-> Some(operand_type), size |-> 6],
                  offset |-> offset + 6]
        ELSE [instruction |->
                  [offset |-> offset, opcode |-> opcode, operand |-> None,
                   operand_type |-> None, size |-> 2],
              offset |-> offset + 2]

(***************************************************************************)
(* Script(data), script.iterate(start_offset) and the calls of next() on   *)
(* the iterator                                                            *)
(***************************************************************************)
\* the calls of next() a caller makes on one iterator
MaxNextCalls == 3

\* Script.__init__ about to be called on data; start_offset is the argument
\* the caller will hand to iterate()
ScriptCall(data, start_offset) ==
    [pc |-> "call", data |-> data, start_offset |-> start_offset,
     proc_count |-> WideOf(0), ptr |-> 0, i |-> 0, procedures |-> << >>,
     identifiers_offset |-> 0, identifiers_size |-> WideOf(0),
     static_strings_offset |-> WideOf(0), static_strings_size |-> 0,
     code_end |-> 0, offset |-> 0, calls |-> 0, instruction |-> None]

ScriptUnchanged == UNCHANGED <<file, fpos, opened, entries, ring, ring_index, rd, lz, mp>>

\* __init__ and the head of _parse: ValueError on a buffer too small
ScriptInit ==
    /\ sc.pc = "call"
    /\ sc' = IF Len(sc.data) < PROCEDURES_OFFSET + 4 THEN [sc EXCEPT !.pc = "raised"]
             ELSE [sc EXCEPT !.pc = "procs",
                             !.proc_count = ReadLong(sc.data, PROCEDURES_OFFSET),
                             !.ptr = PROCEDURES_OFFSET + 4, !.i = 0]
    /\ ScriptUnchanged

\* one pass of the procedure loop that does not break; a read_long past the end
\* raises IndexError out of the constructor
ScriptProcedure ==
    /\ sc.pc = "procs"
    /\ InRange(sc.i, sc.proc_count)
    /\ ProcFits(sc.ptr, Len(sc.data))
    /\ sc' = IF ~CanReadLong(sc.data, sc.ptr + 20) THEN [sc EXCEPT !.pc = "raised"]
             ELSE [sc EXCEPT !.procedures = Append(@, ReadProcedure(sc.data, sc.ptr, sc.i)),
                             !.ptr = @ + PROCEDURE_SIZE, !.i = @ + 1]
    /\ ScriptUnchanged

\* the procedure loop ends or breaks, and _parse runs to its end
ScriptTables ==
    /\ sc.pc = "procs"
    /\ ~(InRange(sc.i, sc.proc_count) /\ ProcFits(sc.ptr, Len(sc.data)))
    /\ sc' = ParseTables(sc)
    /\ ScriptUnchanged

\* script.iterate(start_offset)
ScriptIterate ==
    /\ sc.pc = "built"
    /\ sc' = [sc EXCEPT !.pc = "iter", !.offset = sc.start_offset]
    /\ ScriptUnchanged

\* iterator.next()
ScriptNext ==
    /\ sc.pc = "iter"
    /\ sc.calls < MaxNextCalls
    /\ sc' = IF ~HasMore(sc, sc.offset)
             THEN [sc EXCEPT !.calls = @ + 1, !.instruction = None]
             ELSE LET r == NextInstruction(sc, sc.data, sc.offset)
                  IN  [sc EXCEPT !.calls = @ + 1, !.offset = r.offset,
                                 !.instruction = Some(r.instruction)]
    /\ ScriptUnchanged

NextScript ==
    \/ ScriptInit
    \/ ScriptProcedure
    \/ ScriptTables
    \/ ScriptIterate
    \/ ScriptNext

(***************************************************************************)
(* Script buffers                                                          *)
(***************************************************************************)
\* the procedure records of the scripts built whole
MaxProcs == 2

U16Bytes(w) == <<w \div 256, w % 256>>
U32Bytes(v) == U16Bytes(v.hi) \o U16Bytes(v.lo)

\* 42 bytes of startup code: the given code, then NOOP words (0x8000)
Bootstrap(code) ==
    code \o Flatten([k \in 1 .. (PROCEDURES_OFFSET - Len(code)) \div 2 |-> <<128, 0>>])

ProcRecord(name_offset, k) ==
    U32Bytes(name_offset) \o U32Bytes(WideOf(k)) \o U32Bytes(WideOf(0))
    \o U32Bytes(WideOf(0)) \o U32Bytes(WideOf(100 + k)) \o U32Bytes(WideOf(0))

\* the identifiers "go", "a<E9>" (one byte that is not ASCII) and "end", the
\* last one without its NUL when cut
Identifiers == <<103, 111, 0, 97, 233, 0, 101, 110, 100, 0>>
\* the static strings "hi" (offset 0) and "yo" (offset 3)
StaticStrings == <<104, 105, 0, 121, 111, 0>>

\* a script: startup code, a declared count, the records of the name offsets,
\* the identifiers, a declared static strings size, strings and main code
ScriptImage(code, proc_count, name_offsets, ids_size, strs_size, main) ==
    Bootstrap(code) \o U32Bytes(proc_count)
    \o Flatten([k \in 1 .. Len(name_offsets) |-> ProcRecord(name_offsets[k], k)])
    \o U32Bytes(ids_size) \o Identifiers \o U32Bytes(strs_size) \o StaticStrings \o main

NameOffsets(n) == [k \in 1 .. n |-> WideOf(<<4, 7, 10, 13>>[((k - 1) % 4) + 1])]

WholeScript(n) ==
    ScriptImage(<< >>, WideOf(n), NameOffsets(n), WideOf(Len(Identifiers)),
                WideOf(Len(StaticStrings)), <<128, 13, 192, 1, 0, 0>>)

\* a whole script cut at every length, from the empty buffer on
CutScripts ==
    UNION {{SubSeq(WholeScript(n), 1, len) : len \in 0 .. Len(WholeScript(n))} :
           n \in 0 .. MaxProcs}

\* buffers of one repeated byte around the 46-byte limit and past a record
SameByteScripts ==
    {[k \in 1 .. len |-> b] : b \in {0, 255},
                              len \in {0, 1, 45, 46, 47, 50, 69, 70, 74, 75, 82}}

\* scripts whose count, name offsets and table sizes are larger than, or
\* unrelated to, what is stored
OddWides == {WideOf(0), WideOf(1), WideOf(9), WideOf(200), Wide(32768, 0), Wide(65535, 65535)}
OddScripts ==
    {ScriptImage(<< >>, c, <<o>>, i, s, << >>) :
        c \in {WideOf(0), WideOf(1), WideOf(2), Wide(65535, 65535)},
        o \in OddWides, i \in {WideOf(10), WideOf(200), Wide(65535, 65535)},
        s \in {WideOf(0), WideOf(6), WideOf(200), Wide(65535, 65535)}}

\* the opcode words of PUSH under each pattern of the high byte, PUSH with
\* other bits of the low 16 set, and two words that are not PUSH
PushWords ==
    {OPCODE_PUSH, VALUE_INT, VALUE_FLOAT, VALUE_STRING, VALUE_DYNAMIC_STRING,
     34817, 57345, 33793, 32768, 32781}
Payloads ==
    {WideOf(0), WideOf(3), WideOf(4), WideOf(200), Wide(16256, 0), Wide(32768, 1),
     Wide(49024, 0), Wide(65535, 65535)}

\* a PUSH at offset 0 of the startup code of a whole script
PushScripts ==
    {ScriptImage(U16Bytes(w) \o U32Bytes(v), WideOf(1), NameOffsets(1),
                 WideOf(Len(Identifiers)), s, << >>) :
        w \in PushWords, v \in Payloads, s \in {WideOf(Len(StaticStrings)), Wide(65535, 65535)}}

\* a PUSH whose payload is cut by the end of the buffer
CutPushScripts ==
    {ScriptImage(<< >>, WideOf(0), << >>, WideOf(Len(Identifiers)),
                 WideOf(Len(StaticStrings)), U16Bytes(w) \o SubSeq(<<0, 0, 0, 3>>, 1, n)) :
        w \in PushWords, n \in 0 .. 4}

ScriptCalls ==
    {ScriptCall(d, 0) : d \in CutScripts \cup SameByteScripts \cup OddScripts \cup PushScripts}
    \cup {ScriptCall(d, Len(WholeScript(0)) - 6) : d \in CutPushScripts \cup {WholeScript(0)}}

InitScript ==
    /\ file = << >>
    /\ fpos = 0
    /\ opened = "closed"
    /\ entries = << >>
    /\ ring = ResetRing
    /\ ring_index = RING_BUFFER_FILL
    /\ rd = NoReaders
    /\ lz = [pc |-> "none", data |-> << >>, out |-> << >>]
    /\ mp = NoMap
    /\ sc \in ScriptCalls

SpecScript == InitScript /\ [][NextScript]_vars

(***************************************************************************)
(* C11                                                                     *)
(***************************************************************************)
\* C11: MapParser.parse never raises, whatever the length and the contents of
\* the buffer.
C11_ParseNeverRaises ==
    mp.pc # "raised"

(***************************************************************************)
(* C12                                                                     *)
(***************************************************************************)
\* the elevation (1..3) the i-th object of a placement lies on
C12_ElevationOf(pl, i) ==
    IF i <= pl[1] THEN 1 ELSE IF i <= pl[1] + pl[2] THEN 2 ELSE 3

RECURSIVE C12_WordsOfFirst(_)
C12_WordsOfFirst(k) ==
    IF k = 0 THEN 0 ELSE Len(ObjWords(NthObject(k))) + C12_WordsOfFirst(k - 1)

\* the number of words of a well-formed map up to the end of its k-th object
\* record; for k = 0, up to the start of the first one
C12_CutAfter(pl, k) ==
    ObjectsStart + 1 + C12_ElevationOf(pl, IF k = 0 THEN 1 ELSE k) + C12_WordsOfFirst(k)

\* object i of a well-formed map, parsed whole: its identifier and those of
\* its inventory tree
C12_Whole(obj, i) ==
    /\ obj.id = 10 * i
    /\ i % 3 = 1 =>
          /\ Len(obj.inventory) = 2
          /\ obj.inventory[1].item.id = 10 * i + 1
          /\ obj.inventory[2].item.id = 10 * i + 2
          /\ Len(obj.inventory[2].item.inventory) = 1
          /\ obj.inventory[2].item.inventory[1].item.id = 10 * i + 3
    /\ i % 3 # 1 => obj.inventory = << >>

\* m returned exactly the first k objects of the placement pl, in file order
C12_FirstK(m, pl, k) ==
    /\ m.pc = "done"
    /\ Len(m.map[1].objects) = k
    /\ \A i \in 1 .. k : C12_Whole(m.map[1].objects[i], i)
    /\ \A e \in 1 .. 3 :
          LET before == IF e = 1 THEN 0 ELSE IF e = 2 THEN pl[1] ELSE pl[1] + pl[2]
              here == {i \in 1 .. k : C12_ElevationOf(pl, i) = e}
          IN  /\ Len(m.map[1].objects_by_elevation[e - 1]) = Cardinality(here)
              /\ \A i \in here :
                    m.map[1].objects_by_elevation[e - 1][i - before] = m.map[1].objects[i]

C12_IsPrefix(s, t) == Len(s) <= Len(t) /\ s = SubSeq(t, 1, Len(s))

\* C12: a well-formed map of n objects cut right after its k-th object record
\* (0 <= k < n) parses to exactly its first k objects, in file order, without
\* raising; objects are only ever added at the end of the result, and once a
\* record read has failed the reader cannot read a word and no later pass of
\* the object loop adds an object.
C12_TruncatedKeepsFirstK ==
    [][/\ mp'.pc \in {"done", "raised"} =>
             \A pl \in UNION {Placements(n) : n \in 1 .. MaxMapObjects} :
                 \A k \in 0 .. pl[1] + pl[2] + pl[3] - 1 :
                     (/\ mp'.data.tail = << >>
                      /\ Len(mp'.data.words) = C12_CutAfter(pl, k)
                      /\ mp'.data.words = SubSeq(WellFormedWords(pl), 1, C12_CutAfter(pl, k)))
                     => C12_FirstK(mp', pl, k)
       /\ mp.pc \in {"object", "elevation"} => C12_IsPrefix(mp.objects, mp'.objects)
       /\ mp.pc = "object" =>
             /\ mp'.objects = mp.objects => ~CanUnpack(mp'.data, mp'.offset)
             /\ ~CanUnpack(mp.data, mp.offset) => mp'.objects = mp.objects]_vars

\* a map of three objects, one per elevation, cut after its second object: the
\* carrier with its whole inventory and the weapon are returned
C12_Witness ==
    /\ mp.pc = "done"
    /\ mp.data = CutMap(WellFormedWords(<<1, 1, 1>>), 4 * C12_CutAfter(<<1, 1, 1>>, 2))
    /\ C12_FirstK(mp, <<1, 1, 1>>, 2)
    /\ Len(mp.map[1].objects_by_elevation[1]) = 1
    /\ mp.map[1].objects_by_elevation[2] = << >>

(***************************************************************************)
(* C13                                                                     *)
(***************************************************************************)
\* the 32-bit words of a slot whose identifier is the word x
C13_SlotWordCount(x) ==
    LET tag == (x \div 16777216) % 256
    IN  IF tag = 1 THEN 18 ELSE IF tag = 2 THEN 17 ELSE 16

\* the offset of slot i (from 1) of an extent that starts at offset: each slot
\* starts right after the one before it
RECURSIVE C13_SlotStart(_, _, _)
C13_SlotStart(data, offset, i) ==
    IF i = 1 THEN offset
    ELSE LET prev == C13_SlotStart(data, offset, i - 1)
         IN  prev + 4 * C13_SlotWordCount(Int32At(data, prev))

\* C13: a pass of the extent loop that reads a whole extent reads each of its
\* 16 slots at the offset right after the slot before it, a slot taking 18
\* words when the high byte of its own identifier is 1, 17 when it is 2 and 16
\* otherwise, in every bucket, and reads the extent footer right after the
\* 16th slot.
C13_SlotSizeByOwnTag ==
    [][(mp.pc = "extent" /\ mp'.pc # "done" /\ mp' # mp) =>
          /\ Len(mp'.extent_scripts) = 16
          /\ \A i \in 1 .. 16 :
                LET start == C13_SlotStart(mp.data, mp.offset, i)
                    next == C13_SlotStart(mp.data, mp.offset, i + 1)
                    s == mp'.extent_scripts[i]
                IN  /\ s.scr_id = Int32At(mp.data, start)
                    /\ s.scr_next = Int32At(mp.data, start + 4)
                    /\ s.scr_flags = Int32At(mp.data, next - 56)
                    /\ s.run_info_flags = Int32At(mp.data, next - 4)
          /\ mp'.offset = C13_SlotStart(mp.data, mp.offset, 17) + 8]_vars

\* the last bucket (Critter) held Spatial, Timed and other slots, and the
\* objects section is read where the bucket ended: its total count is 1
C13_Witness ==
    /\ mp.pc = "objects"
    /\ mp.script_type = 4
    /\ Len(mp.extent_scripts) = 16
    /\ \E i, j, k \in 1 .. 16 :
          /\ HighByte(mp.extent_scripts[i].scr_id) = 1
          /\ mp.extent_scripts[i].built_tile = mp.extent_scripts[i].scr_flags + 1
          /\ HighByte(mp.extent_scripts[j].scr_id) = 2
          /\ mp.extent_scripts[j].time = mp.extent_scripts[j].scr_flags + 1
          /\ HighByte(mp.extent_scripts[k].scr_id) = 255
    /\ Int32At(mp.data, mp.offset) = 1
    /\ MapLen(mp.data) = mp.offset + 4 * (1 + 3 + Len(ObjWords(Marker)))

(***************************************************************************)
(* C14                                                                     *)
(***************************************************************************)
C14_Ceil16(c) == (c \div 16) + (IF c % 16 = 0 THEN 0 ELSE 1)

\* the passes of the extent loop of a bucket: ceil(c/16) of them for a
\* declared count c > 0
C14_ExtentsRead ==
    /\ (mp.pc = "bucket" /\ mp'.pc = "extent") =>
          /\ Int32At(mp.data, mp.offset) > 0
          /\ mp'.num_extents = C14_Ceil16(Int32At(mp.data, mp.offset))
          /\ mp'.extent_idx = 0
    /\ (mp.pc = "extent" /\ mp'.pc # "done" /\ mp' # mp) =>
          /\ mp.extent_idx < mp.num_extents
          /\ mp'.pc = "extent" <=> mp.extent_idx + 1 < mp.num_extents
          /\ mp'.pc = "extent" => mp'.extent_idx = mp.extent_idx + 1

\* the scripts a pass of the extent loop added to the flat list and to the
\* list of its bucket: the first n slots of the extent
C14_Kept(n) ==
    /\ mp'.all_scripts = mp.all_scripts \o SubSeq(mp'.extent_scripts, 1, n)
    /\ mp'.scripts_by_type[mp.script_type]
           = mp.scripts_by_type[mp.script_type] \o SubSeq(mp'.extent_scripts, 1, n)
    /\ \A b \in 0 .. 4 : b # mp.script_type => mp'.scripts_by_type[b] = mp.scripts_by_type[b]

\* valid-length: the first word of the trailing pair, limited to 0..16
C14_ValidLength ==
    LET v == Int32At(mp.data, mp'.offset - 8)
    IN  IF v < 0 THEN 0 ELSE IF v > 16 THEN 16 ELSE v

\* C14 as stated: ceil(c/16) extents are read, all 16 slots of a non-final
\* extent are kept and the first valid-length slots of the final one.
C14_FinalExtentTrimmed ==
    [][/\ C14_ExtentsRead
       /\ (mp.pc = "extent" /\ mp'.pc # "done" /\ mp' # mp) =>
             IF mp.extent_idx + 1 < mp.num_extents
             THEN C14_Kept(16)
             ELSE C14_Kept(C14_ValidLength)]_vars

\* C14 amended: ceil(c/16) extents are read, and of every extent, final or
\* not, the first valid-length slots are kept, valid-length being the first
\* word of that extent's own trailing pair.
C14_EveryExtentTrimmed ==
    [][/\ C14_ExtentsRead
       /\ (mp.pc = "extent" /\ mp'.pc # "done" /\ mp' # mp) => C14_Kept(C14_ValidLength)]_vars

\* a bucket of count 17: two extents were read, the first declaring 5 valid
\* slots and the second 5, and 10 scripts were kept
C14_Witness ==
    /\ mp.pc = "bucket"
    /\ mp.script_type = 1
    /\ mp.num_extents = 2
    /\ mp.extent_idx = 2
    /\ Int32At(mp.data, HEADER_SIZE) = 17
    /\ Len(mp.scripts_by_type[0]) = 10
    /\ Len(mp.all_scripts) = 10
    /\ Int32At(mp.data, mp.offset - 8) = 5

(***************************************************************************)
(* C15                                                                     *)
(***************************************************************************)
RECURSIVE C15_AllAt(_, _)
C15_AllAt(obj, e) ==
    /\ obj.elevation = e
    /\ \A i \in 1 .. Len(obj.inventory) : C15_AllAt(obj.inventory[i].item, e)

\* C15: every object of objects_by_elevation[e] and every object of its
\* inventory tree has elevation e.
C15_ElevationIsLoopIndex ==
    \A e \in 0 .. 2 :
        \A i \in 1 .. Len(mp.objects_by_elevation[e]) :
            C15_AllAt(mp.objects_by_elevation[e][i], e)

\* the carrier read on elevation 1: its record stores elevation 2, its weapon
\* 1, its container 0 and the key in the container 1
C15_Witness ==
    /\ mp.pc = "done"
    /\ mp.data = MapData(WellFormedWords(<<0, 1, 0>>))
    /\ Int32At(mp.data, 4 * (ObjectsStart + 3) + 40) = 2
    /\ Len(mp.map[1].objects_by_elevation[1]) = 1
    /\ mp.map[1].objects_by_elevation[1][1].elevation = 1
    /\ mp.map[1].objects_by_elevation[1][1].inventory[2].item.elevation = 1
    /\ mp.map[1].objects_by_elevation[1][1].inventory[2].item.inventory[1].item.elevation = 1

(***************************************************************************)
(* C16                                                                     *)
(***************************************************************************)
\* the payloads an object carries
C16_Payloads(obj) ==
    {f \in {"critter_data", "weapon_data", "ammo_data", "misc_item_data", "key_data",
            "door_data", "stairs_data", "elevator_data", "ladder_data",
            "exit_grid_data"} : obj[f] # << >>}

\* the payload the top byte of the PID and the tables select, and its words
C16_Selected(p, pid) ==
    LET tag == (pid \div 16777216) % 256
        item == IF pid \in DOMAIN p.item_types THEN p.item_types[pid] ELSE -1
        scenery == IF pid \in DOMAIN p.scenery_types THEN p.scenery_types[pid] ELSE -1
    IN  IF tag = 1 THEN [f |-> {"critter_data"}, n |-> 11]
        ELSE IF tag = 0 /\ pid \in DOMAIN p.item_types /\ item = 3
        THEN [f |-> {"weapon_data"}, n |-> 2]
        ELSE IF tag = 0 /\ pid \in DOMAIN p.item_types /\ item = 4
        THEN [f |-> {"ammo_data"}, n |-> 1]
        ELSE IF tag = 0 /\ pid \in DOMAIN p.item_types /\ item = 5
        THEN [f |-> {"misc_item_data"}, n |-> 1]
        ELSE IF tag = 0 /\ pid \in DOMAIN p.item_types /\ item = 6
        THEN [f |-> {"key_data"}, n |-> 1]
        ELSE IF tag = 2 /\ pid \in DOMAIN p.scenery_types /\ scenery = 0
        THEN [f |-> {"door_data"}, n |-> 1]
        ELSE IF tag = 2 /\ pid \in DOMAIN p.scenery_types /\ scenery = 1
        THEN [f |-> {"stairs_data"}, n |-> 2]
        ELSE IF tag = 2 /\ pid \in DOMAIN p.scenery_types /\ scenery = 2
        THEN [f |-> {"elevator_data"}, n |-> 2]
        ELSE IF tag = 2 /\ pid \in DOMAIN p.scenery_types /\ scenery \in {3, 4}
        THEN [f |-> {"ladder_data"}, n |-> 1]
        ELSE IF tag = 5 /\ pid >= 83886096 /\ pid <= 83886103
        THEN [f |-> {"exit_grid_data"}, n |-> 4]
        ELSE [f |-> {}, n |-> 0]

RECURSIVE C16_PayloadSelected(_, _)
C16_PayloadSelected(p, obj) ==
    /\ C16_Payloads(obj) = C16_Selected(p, obj.pid).f
    /\ \A i \in 1 .. Len(obj.inventory) : C16_PayloadSelected(p, obj.inventory[i].item)

\* the words of the record of an object whose inventory was read whole: 18
\* base words, 3 of inventory header, the flags word of a non-critter, the
\* payload, and a quantity and a record for each inventory item
RECURSIVE C16_Words(_, _)
RECURSIVE C16_SumWords(_, _, _)
C16_Words(p, obj) ==
    21 + (IF (obj.pid \div 16777216) % 256 = 1 THEN 0 ELSE 1)
    + C16_Selected(p, obj.pid).n + C16_SumWords(p, obj.inventory, Len(obj.inventory))
C16_SumWords(p, inv, n) ==
    IF n = 0 THEN 0 ELSE 1 + C16_Words(p, inv[n].item) + C16_SumWords(p, inv, n - 1)

RECURSIVE C16_InventoryWhole(_)
C16_InventoryWhole(obj) ==
    /\ Len(obj.inventory) = (IF obj.inventory_length > 0 THEN obj.inventory_length ELSE 0)
    /\ \A i \in 1 .. Len(obj.inventory) : C16_InventoryWhole(obj.inventory[i].item)

\* C16: every parsed object, in the lists and in the inventories, carries
\* exactly the payload its PID and the tables select (none for an Item or
\* Scenery PID missing from its table), hence at most one; and the record of
\* an object read with its whole inventory takes the words of that payload
\* and no others.
C16_PayloadByTagAndTables ==
    [][(mp.pc = "object" /\ mp' # mp) =>
          /\ \A i \in 1 .. Len(mp'.objects) :
                /\ C16_PayloadSelected(mp.p, mp'.objects[i])
                /\ Cardinality(C16_Payloads(mp'.objects[i])) <= 1
          /\ (Len(mp'.objects) > Len(mp.objects)
              /\ C16_InventoryWhole(mp'.objects[Len(mp'.objects)]))
             => mp'.offset = mp.offset + 4 * C16_Words(mp.p, mp'.objects[Len(mp'.objects)])]_vars

\* a parser built without tables read the weapon (PID 1) without payload: the
\* words 24 and 77 of its payload are the first words of the next record
C16_Witness ==
    /\ mp.pc = "done"
    /\ mp.p = NoTables
    /\ Len(mp.objects) = 2
    /\ mp.objects[1].pid = 1
    /\ mp.objects[1].item_flags = 8
    /\ C16_Payloads(mp.objects[1]) = {}
    /\ mp.objects[2].id = 24
    /\ mp.objects[2].tile = 77

(***************************************************************************)
(* C17                                                                     *)
(***************************************************************************)
\* the 32-bit value of the four bytes at offset, as <<high half, low half>>
C17_Long(data, offset) ==
    <<data[offset + 1] * 256 + data[offset + 2], data[offset + 3] * 256 + data[offset + 4]>>

\* the procedure records a buffer of at least 46 bytes declares and stores
\* whole
C17_StoredProcs(data) ==
    LET declared == C17_Long(data, 42)
        whole == (Len(data) - 46) \div 24
    IN  IF declared[1] = 0 /\ declared[2] < whole THEN declared[2] ELSE whole

\* C17: constructing a Script raises only on a buffer shorter than 46 bytes;
\* on any buffer of at least 46 bytes it returns a Script that holds the
\* procedure records declared and stored whole, each with a name that is a
\* string of the buffer or empty, the identifier table starting after them,
\* and a static strings size that is 0 or lies inside the buffer.
C17_RaisesOnlyWhenTooSmall ==
    /\ sc.pc = "raised" => Len(sc.data) < 46
    /\ sc.pc \in {"procs", "built", "iter"} => Len(sc.data) >= 46
    /\ sc.pc \in {"built", "iter"} =>
          /\ Len(sc.procedures) = C17_StoredProcs(sc.data)
          /\ \A k \in 1 .. Len(sc.procedures) :
                LET p == sc.procedures[k]
                IN  /\ p.index = k - 1
                    /\ <<p.name_offset.hi, p.name_offset.lo>>
                           = C17_Long(sc.data, 46 + 24 * (k - 1))
                    /\ <<p.code_address.hi, p.code_address.lo>>
                           = C17_Long(sc.data, 46 + 24 * (k - 1) + 16)
                    /\ Len(p.name) <= Len(sc.data)
                    /\ \A j \in 1 .. Len(p.name) : p.name[j] # 0
          /\ sc.identifiers_offset = 46 + 24 * Len(sc.procedures)
          /\ sc.static_strings_size >= 0
          /\ sc.static_strings_size <= Len(sc.data)
          /\ sc.code_end = Len(sc.data)

\* 74 bytes 0xFF: a count and sizes of 2^32 - 1, one procedure stored whole
\* with a name offset past the end; the Script has that one procedure, with
\* the empty name, and an empty static strings table
C17_Witness ==
    /\ sc.pc = "built"
    /\ Len(sc.data) = 74
    /\ sc.proc_count = Wide(65535, 65535)
    /\ Len(sc.procedures) = 1
    /\ sc.procedures[1].name_offset = Wide(65535, 65535)
    /\ sc.procedures[1].name = << >>
    /\ sc.identifiers_offset = 70
    /\ sc.identifiers_size = Wide(65535, 65535)
    /\ sc.static_strings_size = 0

(***************************************************************************)
(* C18                                                                     *)
(***************************************************************************)
\* the instruction next() returns where the opcode word of the instruction
\* last returned is w and everything else is as it is
C18_Decoded(w) ==
    LET at == sc.instruction[1].offset
    IN  NextInstruction(sc, [sc.data EXCEPT ![at + 1] = w \div 256, ![at + 2] = w % 256],
                        at).instruction

C18_Typed(instruction) == <<instruction.operand_type, instruction.operand>>

\* next() has just returned a PUSH with its payload, tagged in one of the
\* four ways
C18_Pushed ==
    /\ sc.pc = "iter"
    /\ sc.instruction # << >>
    /\ sc.instruction[1].size = 6
    /\ sc.instruction[1].opcode \in {OPCODE_PUSH, VALUE_INT, VALUE_FLOAT, VALUE_STRING}
    /\ sc.instruction[1] = C18_Decoded(sc.instruction[1].opcode)

\* the payload of the instruction last returned
C18_Payload == SubSeq(sc.data, sc.instruction[1].offset + 3, sc.instruction[1].offset + 6)

C18_Signed(b) ==
    (IF b[1] >= 128 THEN b[1] - 256 ELSE b[1]) * 16777216 + b[2] * 65536 + b[3] * 256 + b[4]

C18_Single(b) ==
    <<b[1] \div 128, (b[1] % 128) * 2 + (b[2] \div 128), (b[2] % 128) * 65536 + b[3] * 256 + b[4]>>

\* the text at an offset of the static string table: the bytes up to the
\* next NUL or the end of the buffer, nothing for an offset past the end
RECURSIVE C18_UpToNul(_, _)
C18_UpToNul(data, from) ==
    IF from > Len(data) \/ data[from] = 0 THEN << >>
    ELSE <<IF data[from] < 128 THEN data[from] ELSE 65533>> \o C18_UpToNul(data, from + 1)

C18_Text(b) ==
    IF b[1] # 0 \/ b[2] # 0 \/ sc.static_strings_offset.hi # 0 THEN << >>
    ELSE C18_UpToNul(sc.data, sc.static_strings_offset.lo + 4 + b[3] * 256 + b[4] + 1)

\* what the int, float and static-string tags decode a payload to
C18_ValuesAsTagged ==
    /\ C18_Typed(C18_Decoded(VALUE_INT)) = <<<<"int">>, <<<<C18_Signed(C18_Payload)>>>>>>
    /\ C18_Typed(C18_Decoded(VALUE_FLOAT)) = <<<<"float">>, <<C18_Single(C18_Payload)>>>>
    /\ C18_Typed(C18_Decoded(VALUE_STRING)) = <<<<"string">>, <<C18_Text(C18_Payload)>>>>

\* C18 as stated: the same payload decodes to four different typed operands
\* under the plain, int, float and static-string tags, as a signed integer
\* under int, as the IEEE-754 single of the same bits under float, as the text
\* at that offset of the static string table under static-string.
C18_FourDifferentOperands ==
    C18_Pushed =>
        /\ C18_ValuesAsTagged
        /\ Cardinality({C18_Typed(C18_Decoded(w)) :
                           w \in {OPCODE_PUSH, VALUE_INT, VALUE_FLOAT, VALUE_STRING}}) = 4

\* C18 amended: the same payload decodes to three different typed operands:
\* the same signed integer under the plain and the int tag, the IEEE-754
\* single of the same bits under float, the text at that offset of the static
\* string table under static-string.
C18_ThreeDifferentOperands ==
    C18_Pushed =>
        /\ C18_ValuesAsTagged
        /\ C18_Decoded(OPCODE_PUSH) = [C18_Decoded(VALUE_INT) EXCEPT !.opcode = OPCODE_PUSH]
        /\ Cardinality({C18_Typed(C18_Decoded(w)) :
                           w \in {OPCODE_PUSH, VALUE_INT, VALUE_FLOAT, VALUE_STRING}}) = 3

\* the payload 3F 80 00 00 under the float tag is the single 1.0 (sign 0,
\* exponent 127, fraction 0); under int and plain it is 1065353216, under
\* static-string the empty text of an offset past the end
C18_Witness ==
    /\ sc.pc = "iter"
    /\ sc.calls = 1
    /\ sc.offset = 6
    /\ sc.instruction # << >>
    /\ sc.instruction[1].opcode = VALUE_FLOAT
    /\ C18_Payload = <<63, 128, 0, 0>>
    /\ sc.instruction[1].operand_type = <<"float">>
    /\ sc.instruction[1].operand = <<<<0, 127, 0>>>>
    /\ C18_Decoded(VALUE_INT).operand = <<<<1065353216>>>>
    /\ C18_Decoded(OPCODE_PUSH).operand = <<<<1065353216>>>>
    /\ C18_Decoded(OPCODE_PUSH).operand_type = <<"int">>
    /\ C18_Decoded(VALUE_STRING).operand = <<<< >>>>

(***************************************************************************)
(* C19                                                                     *)
(***************************************************************************)
\* C19: a PUSH whose opcode word is 0x9801 (ValueType.DYNAMIC_STRING) decodes
\* to an operand of type dynamic-string offset that holds the raw payload.
C19_DynamicStringLeftUnresolved ==
    (/\ sc.pc = "iter"
     /\ sc.instruction # << >>
     /\ sc.instruction[1].opcode = VALUE_DYNAMIC_STRING
     /\ sc.instruction[1].size = 6)
    => LET b == SubSeq(sc.data, sc.instruction[1].offset + 3, sc.instruction[1].offset + 6)
       IN  /\ sc.instruction[1].operand_type = <<"dynamic_string_offset">>
           /\ sc.instruction[1].operand = <<<<b[1] * 256 + b[2], b[3] * 256 + b[4]>>>>

(***************************************************************************)
(* C20                                                                     *)
(***************************************************************************)
\* the space characters the ring buffer holds, out of 4096
C20_Spaces(r) == RING_BUFFER_SIZE - Cardinality(DOMAIN r)

\* C20: whatever was called on the open archive before, a read_file that
\* finds its entry returns the bytes it returns as the first operation after
\* open, and one that does not find it returns nothing; a chunked read starts
\* its loop on a ring buffer of 4096 spaces with the cursor at 4078, and a
\* fully-compressed read leaves the decoder as a decode started from that
\* state leaves it.
C20_ReadsAsFirstAfterOpen ==
    /\ ReadDone(1) => rd[1].data = AloneRead(rd[1].entry)
    /\ (rd[1].pc = "done" /\ rd[1].op = "read_file" /\ ~rd[1].found) =>
          /\ rd[1].data = << >>
          /\ rd[1].path \notin StoredPaths
    /\ (rd[1].pc = "chunks" /\ rd[1].hdrs = 0) =>
          /\ C20_Spaces(ring) = 4096
          /\ ring_index = 4078
    /\ (ReadDone(1) /\ rd[1].branch = "lzss") =>
          LET e == rd[1].entry
              first == Decode(Slice(file, e.offset, e.offset + e.packed_size), e.unpacked_size)
          IN  ring = first.ring /\ ring_index = first.idx

\* read_file has found the fully-compressed entry q, which copies 3 bytes
\* from offset 4078 of the ring buffer, while the ring buffer holds the P and
\* Q an earlier read stored there: decoding on from that state would return
\* other bytes than the 3 spaces of a first read
C20_Witness ==
    /\ rd[1].pc = "seeked"
    /\ rd[1].branch = "lzss"
    /\ rd[1].path = <<100, 92, 113>>
    /\ RingByte(ring, 4078) = 80
    /\ RingByte(ring, 4079) = 81
    /\ AloneRead(rd[1].entry) = <<32, 32, 32>>
    /\ DecodeLoop(Slice(file, fpos, fpos + rd[1].entry.packed_size),
                  [ring |-> ring, idx |-> ring_index, out |-> << >>, pos |-> 0,
                   rem |-> rd[1].entry.unpacked_size]).out # <<32, 32, 32>>

(***************************************************************************)
(* C22: a raw chunk and the ring buffer                                    *)
(***************************************************************************)
\* caller 1 is in the chunk loop, the loop runs once more and the header the
\* pass reads is that of a raw chunk
C22_RawHeader ==
    /\ rd[1].pc = "chunks"
    /\ ChunkLoopRuns(rd[1].acc, rd[1].entry.unpacked_size)
    /\ fpos + 2 <= Len(file)
    /\ At(file, fpos) >= 128

\* the bytes B the raw chunk holds: the declared count, or what is left
C22_B ==
    Slice(file, fpos + 2, fpos + 2 + (At(file, fpos) % 128) * 256 + At(file, fpos + 1))

\* the decoder after decoding B as a run of LZSS literals from where it is
C22_AsLiterals ==
    LET tokens == C2_Literals(C22_B)
    IN  DecodeStream(tokens, [ring |-> ring, idx |-> ring_index, out |-> << >>,
                              pos |-> 0, rem |-> Len(tokens)])

\* C22: in a chunked read a pass over a raw chunk of bytes B appends B
\* unchanged to the output and leaves the ring buffer and the cursor as
\* decoding B as a run of LZSS literals leaves them: B lies in the ring from
\* the old cursor on, where a reference of a later LZSS chunk finds it.
C22_RawChunkAsLiterals ==
    [][(C22_RawHeader /\ rd' # rd) =>
           /\ rd'[1].pc = "chunks"
           /\ rd'[1].acc = rd[1].acc \o C22_B
           /\ C22_AsLiterals.out = C22_B
           /\ ring' = C22_AsLiterals.ring
           /\ ring_index' = C22_AsLiterals.idx
           /\ \A k \in 0 .. Len(C22_B) - 1 :
                  RingByte(ring', (ring_index + k) % RING_BUFFER_SIZE) = At(C22_B, k)]_vars

\* a raw chunk "AB" was followed by an LZSS chunk of the literal "E" and a
\* reference to offset 4078: the reference copied "AB" and the "E"
C22_Witness ==
    /\ rd[1].pc = "chunks"
    /\ rd[1].hdrs = 2
    /\ rd[1].acc = <<65, 66, 69, 65, 66, 69>>
    /\ RingByte(ring, RING_BUFFER_FILL) = 65
    /\ RingByte(ring, RING_BUFFER_FILL + 1) = 66

(***************************************************************************)
(* One LZSSDecoder and one stream: reset, decode_stream, update_ring_buffer *)
(* and decode called in any order.                                         *)
(***************************************************************************)
\* largest compressed_length a caller passes
MaxBudget == 3
\* most update_ring_buffer calls between two resets
MaxFeeds == 1

\* streams the decoder reads from: every prefix of a reference of length 18
\* to offset 4078 followed by a literal and a reference of length 3; of three
\* literals, one of them a space; of a reference followed by two literals;
\* of a literal followed by a reference of length 17 to offset 3584
DecoderBase ==
    {<<0, 238, 255, 1, 65, 238, 240>>,
     <<255, 65, 32, 66>>,
     <<254, 238, 240, 66, 67>>,
     <<1, 65, 0, 238>>}

DecoderStreams == {Slice(s, 0, n) : s \in DecoderBase, n \in 0 .. 7}

\* byte strings handed to update_ring_buffer: none, one byte, and as many
\* bytes as lie between the initial cursor and the end of the ring buffer
RawRuns ==
    {<< >>, <<66>>, [i \in 1 .. RING_BUFFER_SIZE - RING_BUFFER_FILL |-> 65]}

\* the last call on the decoder. op: the method; n: compressed_length;
\* start: stream.tell() before the call; out, consumed: what it returned;
\* total: bytes returned by decode_stream and decode and bytes handed to
\* update_ring_buffer since the last reset; feeds: update_ring_buffer calls
\* since the last reset
DecoderCall(op, n, start, out, consumed, total, feeds) ==
    [pc |-> "decoder", op |-> op, n |-> n, start |-> start, out |-> out,
     consumed |-> consumed, total |-> total, feeds |-> feeds]

\* LZSSDecoder.__init__ calls reset; the stream is at its start
InitDecoder ==
    /\ file \in DecoderStreams
    /\ fpos = 0
    /\ opened = "closed"
    /\ entries = << >>
    /\ ring = ResetRing
    /\ ring_index = RING_BUFFER_FILL
    /\ rd = NoReaders
    /\ lz = DecoderCall("init", 0, 0, << >>, 0, 0, 0)
    /\ mp = NoMap
    /\ sc = NoScript

\* LZSSDecoder.reset
DecoderReset ==
    /\ LET d == Reset([ring |-> ring, idx |-> ring_index])
       IN  /\ ring' = d.ring
           /\ ring_index' = d.idx
    /\ lz' = DecoderCall("reset", 0, fpos, << >>, 0, 0, 0)
    /\ UNCHANGED <<file, fpos, opened, entries, rd, mp, sc>>

\* LZSSDecoder.decode_stream(stream, n)
DecoderDecodeStream(n) ==
    /\ LET st == DecodeStream(file, [ring |-> ring, idx |-> ring_index, out |-> << >>,
                                     pos |-> fpos, rem |-> n])
       IN  /\ ring' = st.ring
           /\ ring_index' = st.idx
           /\ fpos' = st.pos
           /\ lz' = DecoderCall("decode_stream", n, fpos, st.out, st.pos - fpos,
                                lz.total + Len(st.out), lz.feeds)
    /\ UNCHANGED <<file, opened, entries, rd, mp, sc>>

\* LZSSDecoder.update_ring_buffer(data)
DecoderUpdateRingBuffer(data) ==
    /\ lz.feeds < MaxFeeds
    /\ LET st == UpdateRingBuffer([ring |-> ring, idx |-> ring_index], data, 0)
       IN  /\ ring' = st.ring
           /\ ring_index' = st.idx
    /\ lz' = DecoderCall("update_ring_buffer", 0, fpos, data, 0,
                         lz.total + Len(data), lz.feeds + 1)
    /\ UNCHANGED <<file, fpos, opened, entries, rd, mp, sc>>

\* LZSSDecoder.decode(data, n) with data the bytes the stream holds
DecoderDecode(n) ==
    /\ LET st == DecodeOn([ring |-> ring, idx |-> ring_index], file, n)
       IN  /\ ring' = st.ring
           /\ ring_index' = st.idx
           /\ lz' = DecoderCall("decode", n, fpos, st.out, 0, Len(st.out), 0)
    /\ UNCHANGED <<file, fpos, opened, entries, rd, mp, sc>>

NextDecoder ==
    \/ DecoderReset
    \/ \E n \in 0 .. MaxBudget : DecoderDecodeStream(n)
    \/ \E data \in RawRuns : DecoderUpdateRingBuffer(data)
    \/ \E n \in 0 .. MaxBudget : DecoderDecode(n)

SpecDecoder == InitDecoder /\ [][NextDecoder]_vars

(***************************************************************************)
(* C21: decode_stream and its budget                                       *)
(***************************************************************************)
\* the ring buffer and cursor when bytes are stored one by one from the
\* cursor on, nothing else being touched
RECURSIVE C21_Stored(_, _, _)
C21_Stored(r, idx, bytes) ==
    IF bytes = << >> THEN [ring |-> r, idx |-> idx]
    ELSE C21_Stored(RingStore(r, idx, Head(bytes)), (idx + 1) % RING_BUFFER_SIZE,
                    Tail(bytes))

\* C21: decode_stream(stream, n) goes on from the ring buffer and cursor it
\* finds (they are those it found with the returned bytes stored from the
\* cursor on), reads no more than n bytes, and the count it returns is the
\* distance the stream has moved, which is the smaller of n and the bytes
\* the stream held from where it stood, for every n >= 0.
C21_ConsumesMinOfBudgetAndStream ==
    [][lz'.op = "decode_stream" =>
           /\ lz'.consumed = fpos' - fpos
           /\ lz'.consumed <= lz'.n
           /\ lz'.consumed = Min(lz'.n, Len(file) - fpos)
           /\ ring' = C21_Stored(ring, ring_index, lz'.out).ring
           /\ ring_index' = C21_Stored(ring, ring_index, lz'.out).idx]_vars

\* on a decoder that has copied 18 bytes, decode_stream with budget 3 read a
\* flag byte and a literal and met a reference with one byte of budget left:
\* it returned the literal, read the byte as a flag byte and left the ring
\* buffer and the cursor where the first call had taken them
C21_Witness ==
    /\ lz.op = "decode_stream"
    /\ file = <<0, 238, 255, 1, 65, 238, 240>>
    /\ lz.start = 3
    /\ lz.n = 3
    /\ lz.consumed = 3
    /\ lz.out = <<65>>
    /\ lz.total = 19
    /\ ring_index = 1

(***************************************************************************)
(* C26: the ring buffer and the cursor of a decoder in use                 *)
(***************************************************************************)
\* C26: after a reset and any calls of decode_stream and update_ring_buffer
\* the ring buffer still has its 4096 bytes, the cursor lies in 0 .. 4095
\* and equals 4078 plus the bytes returned or handed in since the reset,
\* modulo 4096.
C26_CursorCountsBytes ==
    lz.pc = "decoder" =>
        /\ DOMAIN ring \subseteq 0 .. RING_BUFFER_SIZE - 1
        /\ \A i \in DOMAIN ring : ring[i] \in 0 .. 255
        /\ ring_index \in 0 .. RING_BUFFER_SIZE - 1
        /\ ring_index = (RING_BUFFER_FILL + lz.total) % RING_BUFFER_SIZE

\* decode_stream copied 18 bytes, which took the cursor past the end of the
\* ring buffer to 0, and update_ring_buffer stored 18 more from there
C26_Witness ==
    /\ lz.op = "update_ring_buffer"
    /\ lz.total = 36
    /\ ring_index = 18
    /\ RingByte(ring, 0) = 65
    /\ RingByte(ring, RING_BUFFER_FILL) = SPACE

(***************************************************************************)
(* C27: decode and decode_stream                                           *)
(***************************************************************************)
\* reset() followed by decode_stream over a stream holding data, budget n
C27_ResetThenStream(data, n) ==
    DecodeStream(data, [ring |-> ResetRing, idx |-> RING_BUFFER_FILL, out |-> << >>,
                        pos |-> 0, rem |-> n])

\* C27: decode(d, n) returns the bytes, and leaves the ring buffer and the
\* cursor, that a reset followed by decode_stream over a stream holding d
\* with budget n returns and leaves, also when the budget or d ends inside
\* a token.
C27_DecodeIsResetThenStream ==
    [][lz'.op = "decode" =>
           /\ lz'.out = C27_ResetThenStream(file, lz'.n).out
           /\ ring' = C27_ResetThenStream(file, lz'.n).ring
           /\ ring_index' = C27_ResetThenStream(file, lz'.n).idx]_vars

\* on a decoder that has read its stream to the end, decode with budget 3
\* of a literal followed by a reference: the budget ends inside the
\* reference, and the literal alone is returned
C27_Witness ==
    /\ lz.op = "decode"
    /\ file = <<1, 65, 0, 238>>
    /\ fpos = 4
    /\ lz.n = 3
    /\ lz.out = <<65>>
    /\ ring_index = RING_BUFFER_FILL + 1

(***************************************************************************)
(* C25: a scripts section that aborts                                      *)
(***************************************************************************)
\* the offset right after the slot at offset, or -1 when the buffer ends
\* inside the slot
C25_SlotEnd(data, offset) ==
    IF offset + 8 > MapLen(data) THEN -1
    ELSE LET tag == HighByte(Int32At(data, offset))
             words == IF tag = 1 THEN 18 ELSE IF tag = 2 THEN 17 ELSE 16
         IN  IF offset + 4 * words > MapLen(data) THEN -1 ELSE offset + 4 * words

\* the 16 slots of the extent at offset: the identifiers of the slots and the
\* offset of the footer, or -1 for it when the buffer ends inside a slot
RECURSIVE C25_Slots(_, _, _, _)
C25_Slots(data, offset, i, ids) ==
    IF i = 16 THEN [ids |-> ids, footer |-> offset]
    ELSE IF C25_SlotEnd(data, offset) < 0 THEN [ids |-> ids, footer |-> -1]
    ELSE C25_Slots(data, C25_SlotEnd(data, offset), i + 1,
                   Append(ids, Int32At(data, offset)))

\* the identifiers of the kept slots of every extent the buffer holds with
\* its 16 slots and its valid-length word, from the head of bucket on (left
\* extents of the bucket still to come), listed per bucket in by; aborted
\* tells whether the section ends before its last bucket does
RECURSIVE C25_Section(_, _, _, _, _)
C25_Section(data, offset, bucket, left, by) ==
    IF bucket = 5 THEN [by |-> by, aborted |-> FALSE]
    ELSE IF left = 0
    THEN IF offset + 4 > MapLen(data) THEN [by |-> by, aborted |-> TRUE]
         ELSE LET c == Int32At(data, offset)
              IN  IF c <= 0 THEN C25_Section(data, offset + 4, bucket + 1, 0, by)
                  ELSE C25_Section(data, offset + 4, bucket, C14_Ceil16(c), by)
    ELSE LET s == C25_Slots(data, offset, 0, << >>)
         IN  IF s.footer < 0 \/ s.footer + 4 > MapLen(data)
             THEN [by |-> by, aborted |-> TRUE]
             ELSE LET v == Int32At(data, s.footer)
                      n == IF v < 0 THEN 0 ELSE IF v > 16 THEN 16 ELSE v
                      kept == [by EXCEPT ![bucket] = @ \o SubSeq(s.ids, 1, n)]
                  IN  C25_Section(data, s.footer + 8,
                                  IF left = 1 THEN bucket + 1 ELSE bucket,
                                  left - 1, kept)

C25_Ids(scripts) == [i \in 1 .. Len(scripts) |-> scripts[i].scr_id]

\* the scripts section of the buffer parse is called on
C25_Whole ==
    C25_Section(mp.data, ScriptsOffset(mp.header[1]), 0, 0, [b \in 0 .. 4 |-> << >>])

\* C25: when the scripts section aborts, parse returns, without objects; the
\* script list of the result holds in file order the kept slots of every
\* extent that was read with its slots and footer before the abort, and no
\* others, each filed under its bucket; the lists are those gathered before
\* the pass that aborted.
C25_AbortKeepsWholeExtents ==
    [][(mp.pc \in {"bucket", "extent"} /\ mp' # mp) =>
          /\ mp'.pc \in {"bucket", "extent", "objects", "done"}
          /\ mp'.pc = "done" =>
                /\ C25_Whole.aborted
                /\ mp'.map[1].objects = << >>
                /\ mp'.map[1].scripts = mp.all_scripts
                /\ mp'.map[1].scripts_by_type = mp.scripts_by_type
                /\ \A b \in 0 .. 4 :
                      C25_Ids(mp'.map[1].scripts_by_type[b]) = C25_Whole.by[b]
                /\ C25_Ids(mp'.map[1].scripts)
                       = C25_Whole.by[0] \o C25_Whole.by[1] \o C25_Whole.by[2]
                         \o C25_Whole.by[3] \o C25_Whole.by[4]
          /\ mp'.pc = "objects" => ~C25_Whole.aborted]_vars

\* the buffer ended inside the second extent of bucket 1: the 16 slots of
\* the first extent are returned, under bucket 1, and no objects
C25_Witness ==
    /\ mp.pc = "done"
    /\ mp.script_type = 1
    /\ mp.extent_idx = 1
    /\ mp.num_extents = 2
    /\ Len(mp.map[1].scripts) = 16
    /\ Len(mp.map[1].scripts_by_type[1]) = 16
    /\ mp.map[1].objects = << >>
    /\ mp.total_count = 0

(***************************************************************************)
(* C28: inventories of the returned objects                                *)
(***************************************************************************)
\* obj and every object below it hold as many inventory entries as their
\* inventory_length declares, none for a length of zero or less
RECURSIVE C28_AsDeclared(_)
C28_AsDeclared(obj) ==
    /\ Len(obj.inventory) = Max(obj.inventory_length, 0)
    /\ \A i \in 1 .. Len(obj.inventory) : C28_AsDeclared(obj.inventory[i].item)

\* C28: every object of a parse result, at every inventory depth, has as many
\* inventory entries as its inventory_length declares (none when the field is
\* zero or negative); an object whose inventory could not be read completely
\* is not returned.
C28_InventoryAsDeclared ==
    mp.pc = "done" =>
        \A i \in 1 .. Len(mp.map[1].objects) : C28_AsDeclared(mp.map[1].objects[i])

(***************************************************************************)
(* C29: the flat object list                                               *)
(***************************************************************************)
\* the identifiers of the objects held in the inventories of objs, at every
\* depth
RECURSIVE C29_Carried(_)
C29_Carried(objs) ==
    UNION {{objs[i].inventory[k].item.id : k \in 1 .. Len(objs[i].inventory)}
           \cup C29_Carried([k \in 1 .. Len(objs[i].inventory) |->
                                 objs[i].inventory[k].item]) :
           i \in 1 .. Len(objs)}

\* C29: the flat object list of a parse result holds no more objects than
\* the total count declared at the start of the objects section; it is the
\* concatenation of objects_by_elevation[0], [1] and [2], and an inventory
\* sub-object appears only inside its owner's inventory.
C29_FlatListWithinTotal ==
    mp.pc = "done" =>
        LET m == mp.map[1]
        IN  /\ Len(m.objects) <= mp.total_count
            /\ m.objects = m.objects_by_elevation[0] \o m.objects_by_elevation[1]
                           \o m.objects_by_elevation[2]
            /\ (mp.data \in WellFormedMaps) =>
                  {m.objects[i].id : i \in 1 .. Len(m.objects)}
                  \cap C29_Carried(m.objects) = {}

(***************************************************************************)
(* C23: the size and the operand of an instruction                         *)
(***************************************************************************)
\* C23: every instruction next() returns whose opcode has PUSH in its low
\* 10 bits has size 6 and a decoded operand, wherever in the code it lies;
\* every other instruction has size 2 and no operand.
C23_PushHasSizeSix ==
    (sc.pc = "iter" /\ sc.instruction # None) =>
        LET ins == sc.instruction[1]
        IN  IF ins.opcode % 1024 = 1
            THEN ins.size = 6 /\ ins.operand # None /\ ins.operand_type # None
            ELSE ins.size = 2 /\ ins.operand = None /\ ins.operand_type = None

(***************************************************************************)
(* C24: the names of the procedures                                        *)
(***************************************************************************)
\* the characters of the NUL-terminated string at the 0-based offset at
RECURSIVE C24_Text(_, _)
C24_Text(data, at) ==
    IF at >= Len(data) \/ data[at + 1] = 0 THEN << >>
    ELSE <<IF data[at + 1] < 128 THEN data[at + 1] ELSE 65533>> \o C24_Text(data, at + 1)

\* the name at name_offset bytes from base, empty when that lies past the
\* end of the buffer
C24_Name(data, base, name_offset) ==
    IF name_offset.hi > 0 \/ base + name_offset.lo >= Len(data) THEN << >>
    ELSE C24_Text(data, base + name_offset.lo)

\* where the length field of the identifier table starts
C24_LengthField == PROCEDURES_OFFSET + 4 + PROCEDURE_SIZE * Len(sc.procedures)

\* C24 as stated: the name of a procedure is the NUL-terminated string that
\* starts name_offset bytes past the end of the 4-byte length field of the
\* identifier table, the base static strings are counted from.
C24_NameFromEndOfLengthField ==
    sc.pc \in {"built", "iter"} =>
        \A k \in 1 .. Len(sc.procedures) :
            sc.procedures[k].name
                = C24_Name(sc.data, C24_LengthField + 4, sc.procedures[k].name_offset)

\* C24 amended: the name of a procedure is the NUL-terminated string that
\* starts name_offset bytes past the start of the 4-byte length field of the
\* identifier table (the field is counted in; a static string is counted
\* from the end of its table's length field).
C24_NameFromStartOfLengthField ==
    sc.pc \in {"built", "iter"} =>
        \A k \in 1 .. Len(sc.procedures) :
            sc.procedures[k].name
                = C24_Name(sc.data, C24_LengthField, sc.procedures[k].name_offset)

\* two procedures with the name offsets 4 and 7: their names are "go" and
\* "a" with a replacement character, the first two identifiers of the table
C24_Witness ==
    /\ sc.pc = "built"
    /\ Len(sc.procedures) = 2
    /\ sc.procedures[1].name_offset = WideOf(4)
    /\ sc.procedures[1].name = <<103, 111>>
    /\ sc.procedures[2].name_offset = WideOf(7)
    /\ sc.procedures[2].name = <<97, 65533>>

(***************************************************************************)
(* One ScriptIterator: seek(offset) and next() called in any order on the  *)
(* iterator that script.iterate(start_offset) returned.                    *)
(***************************************************************************)
\* the calls of seek() a caller makes on one iterator
MaxSeeks == 1

\* a plausible slip: seek rejects negative offsets only
SeekRaisesBelowOnly(s, offset) == offset < 0

\* seek: if offset < 0 or offset > self._end_offset: raise ValueError
SeekRaises(s, offset) == offset < 0 \/ offset > s.code_end

\* a Script about to be built and iterated from start_offset; op, arg and
\* raised are the last call on the iterator and whether it raised, seeks the
\* calls of seek so far
IterCall(data, start_offset) ==
    [pc |-> "call", data |-> data, start_offset |-> start_offset,
     proc_count |-> WideOf(0), ptr |-> 0, i |-> 0, procedures |-> << >>,
     identifiers_offset |-> 0, identifiers_size |-> WideOf(0),
     static_strings_offset |-> WideOf(0), static_strings_size |-> 0,
     code_end |-> 0, offset |-> 0, calls |-> 0, instruction |-> None,
     op |-> "none", arg |-> 0, raised |-> FALSE, seeks |-> 0]

\* iterator.seek(offset)
IterSeek(offset) ==
    /\ sc.pc = "iter"
    /\ sc.seeks < MaxSeeks
    /\ sc' = IF SeekRaises(sc, offset)
             THEN [sc EXCEPT !.op = "seek", !.arg = offset, !.raised = TRUE,
                             !.seeks = @ + 1]
             ELSE [sc EXCEPT !.op = "seek", !.arg = offset, !.raised = FALSE,
                             !.seeks = @ + 1, !.offset = offset]
    /\ ScriptUnchanged

\* iterator.next(), as often as the caller likes
IterNext ==
    /\ sc.pc = "iter"
    /\ sc' = IF ~HasMore(sc, sc.offset)
             THEN [sc EXCEPT !.op = "next", !.arg = 0, !.raised = FALSE,
                             !.instruction = None]
             ELSE LET r == NextInstruction(sc, sc.data, sc.offset)
                  IN  [sc EXCEPT !.op = "next", !.arg = 0, !.raised = FALSE,
                                 !.offset = r.offset,
                                 !.instruction = Some(r.instruction)]
    /\ ScriptUnchanged

\* scripts that end in a PUSH with 0..4 bytes of payload
IterCutScripts ==
    {ScriptImage(<< >>, WideOf(0), << >>, WideOf(Len(Identifiers)),
                 WideOf(Len(StaticStrings)),
                 U16Bytes(VALUE_INT) \o SubSeq(<<0, 0, 0, 3>>, 1, n)) : n \in 0 .. 4}

\* iterate() is called with the start of the code of a script with a
\* procedure, whose tables hold the bytes of PUSH words, and with the offset
\* of the last PUSH of the scripts above
IterCalls ==
    {IterCall(WholeScript(1), 0)}
    \cup {IterCall(d, Len(WholeScript(0)) - 6) : d \in IterCutScripts}

InitIter ==
    /\ file = << >>
    /\ fpos = 0
    /\ opened = "closed"
    /\ entries = << >>
    /\ ring = ResetRing
    /\ ring_index = RING_BUFFER_FILL
    /\ rd = NoReaders
    /\ lz = [pc |-> "none", data |-> << >>, out |-> << >>]
    /\ mp = NoMap
    /\ sc \in IterCalls

NextIter ==
    \/ ScriptInit
    \/ ScriptProcedure
    \/ ScriptTables
    \/ ScriptIterate
    \/ \E offset \in -1 .. sc.code_end + 1 : IterSeek(offset)
    \/ IterNext

\* a caller that iterates goes on calling next() (while has_more(): next())
SpecIter == InitIter /\ [][NextIter]_vars /\ WF_vars(IterNext)

(***************************************************************************)
(* C30: the offset of an iterator                                          *)
(***************************************************************************)
\* the iterator exists and fewer than 2 bytes lie between its offset and
\* the end of the code
C30_Exhausted == sc.pc = "iter" /\ sc.code_end - sc.offset < 2

\* a step of next(): None and the offset unchanged when fewer than 2 bytes
\* remain, otherwise the instruction at the offset, and the offset moved on
\* by its size
C30_NextStep ==
    IF sc.code_end - sc.offset < 2
    THEN sc'.instruction = None /\ sc'.offset = sc.offset
    ELSE /\ sc'.instruction # None
         /\ sc'.instruction[1].offset = sc.offset
         /\ sc'.instruction[1].size \in {2, 6}
         /\ sc'.offset = sc.offset + sc'.instruction[1].size

\* a step of seek(): an offset outside 0 .. end is rejected and the offset
\* is unchanged, another one is taken
C30_SeekStep ==
    IF sc'.arg \in 0 .. sc.code_end
    THEN ~sc'.raised /\ sc'.offset = sc'.arg
    ELSE sc'.raised /\ sc'.offset = sc.offset

C30_Step ==
    (sc.pc = "iter" /\ sc' # sc) =>
        /\ sc'.op \in {"next", "seek"}
        /\ sc'.op = "next" => C30_NextStep
        /\ sc'.op = "seek" => C30_SeekStep
        /\ sc.offset \in 0 .. sc.code_end => sc'.offset \in 0 .. sc'.code_end

\* C30: the offset of an iterator that starts in 0 .. end stays there under
\* any calls of seek and next; a next() that returns an instruction moves
\* the offset on by the size of that instruction, and one called with fewer
\* than 2 bytes left returns None and leaves the offset; a seek outside
\* 0 .. end is rejected and leaves the offset; and an iteration comes, after
\* finitely many steps, to an offset where next() has returned None.
C30_OffsetStaysAndIterationEnds ==
    /\ [][C30_Step]_vars
    /\ [](sc.pc = "iter" => sc.offset \in 0 .. sc.code_end)
    /\ (sc.pc = "iter") ~> (C30_Exhausted /\ sc.op = "next" /\ sc.instruction = None)

\* after a seek the iteration ended one byte before the end of the code,
\* where next() returned None
C30_Witness ==
    /\ C30_Exhausted
    /\ sc.seeks = 1
    /\ sc.op = "next"
    /\ sc.instruction = None
    /\ sc.code_end - sc.offset = 1

====
